---- MODULE Spec2Model ----
(***************************************************************************)
(* Adaptive request routing and resilience layer of the SuperClaude hooks: *)
(* the bounded TTL cache and the performance monitor of                    *)
(* Hooks/Utils/performance_optimizer.py, and the error classifier, the     *)
(* circuit breaker and the fallback executor of                            *)
(* Hooks/morph_error_handler.py.                                           *)
(*                                                                         *)
(* Every subsystem has a specification of its own over the shared          *)
(* variables; a specification leaves the other subsystems' variables at    *)
(* their initial values.  Logging (log_error, the logger) is not modelled.  *)
(***************************************************************************)
EXTENDS Integers, Sequences, FiniteSets, TLC

(***************************************************************************)
(* Bounds of the model (not program constants).                            *)
(***************************************************************************)
MaxCacheSize == 2
\* largest max_size a cache is constructed with
MaxGets == 2
\* completed cache gets per run (hits + misses)
MaxTicks == 3
\* clock ticks of the cache, monitor and breaker specifications
MaxThreadOps == 2
\* operations started by the threads of a concurrent specification, in total
MaxCalls == 5
\* failures handled by the error handler in one run
MaxAttempts == 6
\* attempts of one failing tool call, each handled by handle_error
MaxPrior == 4
\* failures already on record when two processes start to race
MaxGuardCalls == 2
\* handle_error calls with inputs and stats files of any content
MaxRetryCount == 4
\* the retry counts 0..MaxRetryCount an error context is given
MaxRecordings == 1500
\* record_timing calls for the operation whose window fills up
MaxOtherRecordings == 2
\* record_timing calls for the other operation
MaxWindow == 100
\* longest window get_stats is given
MaxBridgeCalls == 2
\* route_to_bridge calls on one hook
MaxOperations == 6
\* process_tool_call calls that raise the session counter
MaxInterceptCalls == 2
\* process_tool_call calls in a process with flags and settings
MaxRecordCalls == 3
\* update_circuit_breaker calls that record a failure
MaxBatchSize == 2
\* the largest batch_size a RequestBatcher is constructed with, the default
\* apart
MaxRequests == 3
\* add_request calls on one RequestBatcher

(***************************************************************************)
(* Program constants.                                                      *)
(***************************************************************************)
ttl_seconds == 300
circuit_breaker_failure_threshold == 5
circuit_breaker_reset_timeout == 300
max_retry_attempts == 3
MetricsWindow == 1000

\* The clock advances in steps of a third of the reset timeout (= a third
\* of the cache ttl), so that both "inside the window" and "exactly at its
\* end" are reached.
TickSeconds == circuit_breaker_reset_timeout \div 3
MaxNow == MaxTicks * TickSeconds

None == "None"

VARIABLES
    now,          \* time.time() / datetime.now(), in seconds
    \* ---- LRUCache
    max_size,     \* LRUCache.max_size
    cache,        \* LRUCache.cache: OrderedDict, oldest first
    hits,         \* LRUCache.hits
    misses,       \* LRUCache.misses
    cache_ret,    \* what the last completed cache call returned
    \* ---- threads sharing the LRUCache
    lock,         \* LRUCache.lock: the thread holding it, or None
    tpc,          \* each thread's position
    targ,         \* each thread's call: [op, key, value]
    tloc,         \* each thread's locals
    started,      \* operations started so far by the threads
    \* ---- PerformanceMonitor and the threads sharing it
    metrics,      \* PerformanceMonitor.metrics: [op, samples], insertion order
    mlock,        \* PerformanceMonitor.lock: the thread holding it, or None
    mpc,          \* each thread's position
    marg,         \* each thread's call: [call, op, duration]
    mloc,         \* each thread's locals: [nested, i, acc, ret]
    mstarted,     \* monitor calls started so far by the threads
    \* ---- the error classifier on its own
    cl_msg,       \* the message given to classify_error
    cl_kind,      \* what classify_error returned, None before the call
    \* ---- MorphErrorHandler and its persisted statistics
    stats_file,   \* ~/.claude/morph_fallback_stats.json: << >> or <<document>>
    response,     \* what the last handle_error call returned
    last_op,      \* the last call made on the handler
    prev_file,    \* the stats file before that call
    calls,        \* the failures handled or recorded so far
    streak,       \* per kind: failures recorded since the last success
    streak_since, \* per kind: the time of the first failure of the streak
    history,      \* the responses to the attempts of one failing call, in order
    proc,         \* each concurrent process inside handle_error
    \* ---- PreToolUseHook and the bridge service
    hook,         \* PreToolUseHook: [enable_smart_routing, enable_selective_activation]
    hook_ret,     \* the last call made on the hook and what it returned
    bridge_requests, \* requests sent to the bridge service so far
    \* ---- MorphToolInterceptor and its process
    session_stats,   \* MorphToolInterceptor.session_stats
    environ,      \* os.environ: the names of the variables set and not empty
    argv,         \* sys.argv[1:]
    icpt_ret,     \* the last call made on the interceptor and what it returned
    \* ---- generate_cache_key
    key_ret,      \* the last two generate_cache_key calls: input and result
    \* ---- RequestBatcher and the threads using it
    batch_size,   \* RequestBatcher.batch_size
    pending_requests, \* RequestBatcher.pending_requests, oldest first
    timer,        \* RequestBatcher.timer: << >> for None, or <<n>> for Timer n
    batch_lock,   \* RequestBatcher.lock: the thread holding it, or None
    bpc,          \* each calling thread's position in add_request
    bloc,         \* each calling thread's locals: [request, batch]
    timers,       \* the Timer objects created so far: [pc, batch] of each
    callbacks,    \* per request: how often its callback has been invoked
    submitted     \* requests passed to add_request so far

cacheVars == <<max_size, cache, hits, misses, cache_ret>>
threadVars == <<lock, tpc, targ, tloc, started>>
monitorVars == <<metrics, mlock, mpc, marg, mloc, mstarted>>
classifyVars == <<cl_msg, cl_kind>>
handlerVars ==
    <<stats_file, response, last_op, prev_file, calls, streak, streak_since,
      history, proc>>
hookVars == <<hook, hook_ret, bridge_requests>>
interceptVars == <<session_stats, environ, argv, icpt_ret>>
batcherVars ==
    <<batch_size, pending_requests, timer, batch_lock, bpc, bloc, timers,
      callbacks, submitted>>
utilVars == <<key_ret, batcherVars>>
vars ==
    <<now, cacheVars, threadVars, monitorVars, classifyVars, handlerVars,
      hookVars, interceptVars, utilVars>>

(***************************************************************************)
(* LRUCache (performance_optimizer.py:16-67).  An entry is                 *)
(* [key, value, ts]; the sequence is the OrderedDict's order.              *)
(***************************************************************************)
CacheKeys == {"k1", "k2", "k3"}
CacheValues == {"v1", "v2"}
Threads == {"t1", "t2"}

KeyIndex(c, k) ==
    IF \E i \in 1..Len(c) : c[i].key = k
    THEN CHOOSE i \in 1..Len(c) : c[i].key = k
    ELSE 0

HasKey(c, k) == KeyIndex(c, k) # 0

RemoveAt(c, i) == SubSeq(c, 1, i - 1) \o SubSeq(c, i + 1, Len(c))

\* OrderedDict.move_to_end(key)
MoveToEnd(c, k) ==
    LET i == KeyIndex(c, k) IN RemoveAt(c, i) \o <<c[i]>>

\* del OrderedDict[key]
DelKey(c, k) == RemoveAt(c, KeyIndex(c, k))

\* OrderedDict[key] = (value, ts): an existing key keeps its position
SetItem(c, k, v, t) ==
    LET e == [key |-> k, value |-> v, ts |-> t] IN
    IF HasKey(c, k) THEN [c EXCEPT ![KeyIndex(c, k)] = e] ELSE Append(c, e)

\* OrderedDict.popitem(last=False)
PopOldest(c) == Tail(c)

LRUSet_NoEvict(c, k, v, t, ms) ==
    SetItem(IF HasKey(c, k) THEN MoveToEnd(c, k) ELSE c, k, v, t)

\* LRUCache.set: the cache after set(k, v) at time t with max_size ms
LRUSet(c, k, v, t, ms) ==
    LET c1 == IF HasKey(c, k) THEN MoveToEnd(c, k) ELSE c
        c2 == SetItem(c1, k, v, t)
    IN  IF Len(c2) > ms THEN PopOldest(c2) ELSE c2

Fresh_UpToTtl(e, t) == t - e.ts <= ttl_seconds

\* the ttl test of LRUCache.get
Fresh(e, t) == t - e.ts < ttl_seconds

LRUGet_ExpiredUncounted(c, h, m, k, t) ==
    IF HasKey(c, k)
    THEN IF Fresh(c[KeyIndex(c, k)], t)
         THEN [cache |-> MoveToEnd(c, k), hits |-> h + 1, misses |-> m,
               ret |-> c[KeyIndex(c, k)].value]
         ELSE [cache |-> DelKey(c, k), hits |-> h, misses |-> m,
               ret |-> None]
    ELSE [cache |-> c, hits |-> h, misses |-> m + 1, ret |-> None]

LRUGet_HitKeepsPlace(c, h, m, k, t) ==
    IF HasKey(c, k)
    THEN IF Fresh(c[KeyIndex(c, k)], t)
         THEN [cache |-> c, hits |-> h + 1, misses |-> m,
               ret |-> c[KeyIndex(c, k)].value]
         ELSE [cache |-> DelKey(c, k), hits |-> h, misses |-> m + 1,
               ret |-> None]
    ELSE [cache |-> c, hits |-> h, misses |-> m + 1, ret |-> None]

\* LRUCache.get: [cache, hits, misses, ret] after get(k) at time t
LRUGet(c, h, m, k, t) ==
    IF HasKey(c, k)
    THEN IF Fresh(c[KeyIndex(c, k)], t)
         THEN [cache |-> MoveToEnd(c, k), hits |-> h + 1, misses |-> m,
               ret |-> c[KeyIndex(c, k)].value]
         ELSE [cache |-> DelKey(c, k), hits |-> h, misses |-> m + 1,
               ret |-> None]
    ELSE [cache |-> c, hits |-> h, misses |-> m + 1, ret |-> None]

HitRate_OfMisses(h, total) ==
    IF total > 0 THEN [num |-> (total - h) * 100, den |-> total]
    ELSE [num |-> 0, den |-> 1]

\* hit_rate = hits / total * 100, kept exact as [num, den]; 0 without traffic
HitRate(h, total) ==
    IF total > 0 THEN [num |-> h * 100, den |-> total]
    ELSE [num |-> 0, den |-> 1]

\* LRUCache.get_stats, run without interruption
LRUGetStats(c, h, m, ms) ==
    [hits |-> h, misses |-> m, hit_rate |-> HitRate(h, h + m),
     size |-> Len(c), max_size |-> ms]

NoStats == [hits |-> 0, misses |-> 0, hit_rate |-> HitRate(0, 0),
            size |-> 0, max_size |-> 0]

ThreadsIdle ==
    /\ lock = None
    /\ tpc = [t \in Threads |-> "idle"]
    /\ targ = [t \in Threads |-> [op |-> "none", key |-> "k1", value |-> "v1"]]
    /\ tloc = [t \in Threads |->
                 [h1 |-> 0, total |-> 0, rate |-> HitRate(0, 0), rhits |-> 0,
                  rmisses |-> 0, ret |-> None, stats |-> NoStats]]
    /\ started = 0

\* LRUCache.__init__
CacheNew ==
    /\ max_size \in 1..MaxCacheSize
    /\ cache = << >>
    /\ hits = 0
    /\ misses = 0
    /\ cache_ret = [op |-> "none", recency |-> << >>]

(***************************************************************************)
(* PerformanceMonitor (performance_optimizer.py:69-113).  metrics is the   *)
(* dict in insertion order; a statistics dict is a record and {} is the    *)
(* record without fields.                                                  *)
(***************************************************************************)
MonitorOps == {"mcp_routing", "main_execution"}
SampleValues == {50, 150}

EmptyDict == [x \in {} |-> 0]

OpIndex(m, op) ==
    IF \E i \in 1..Len(m) : m[i].op = op
    THEN CHOOSE i \in 1..Len(m) : m[i].op = op
    ELSE 0

LastN_KeepsOldest(q, n) == IF Len(q) > n THEN SubSeq(q, 1, n) ELSE q

\* the last n elements of a list: list[-n:]
LastN(q, n) == IF Len(q) > n THEN SubSeq(q, Len(q) - n + 1, Len(q)) ELSE q

\* record_timing, lines 79-86
RecordTiming(m, op, d) ==
    LET m1 == IF OpIndex(m, op) = 0
              THEN Append(m, [op |-> op, samples |-> << >>]) ELSE m
        i == OpIndex(m1, op)
        q == Append(m1[i].samples, d)
    IN  [m1 EXCEPT ![i].samples =
            IF Len(q) > MetricsWindow THEN LastN(q, MetricsWindow) ELSE q]

RECURSIVE SumSeq(_)
SumSeq(q) == IF q = << >> THEN 0 ELSE Head(q) + SumSeq(Tail(q))

StatsOf_NearestRank(m, op) ==
    IF OpIndex(m, op) = 0 THEN EmptyDict
    ELSE LET timings == m[OpIndex(m, op)].samples
             n == Len(timings)
             sorted == SortSeq(timings, <)
         IN  IF n = 0 THEN EmptyDict
             ELSE [count |-> n,
                   min |-> sorted[1],
                   max |-> sorted[n],
                   avg |-> [num |-> SumSeq(timings), den |-> n],
                   p50 |-> sorted[(n + 1) \div 2],
                   p95 |-> sorted[(n * 95 + 99) \div 100],
                   p99 |-> sorted[(n * 99 + 99) \div 100]]

\* get_stats, lines 91-108; avg is kept exact as [num, den]
StatsOf(m, op) ==
    IF OpIndex(m, op) = 0 THEN EmptyDict
    ELSE LET timings == m[OpIndex(m, op)].samples
             n == Len(timings)
             sorted == SortSeq(timings, <)
         IN  IF n = 0 THEN EmptyDict
             ELSE [count |-> n,
                   min |-> sorted[1],
                   max |-> sorted[n],
                   avg |-> [num |-> SumSeq(timings), den |-> n],
                   p50 |-> sorted[(n \div 2) + 1],
                   p95 |-> sorted[((n * 95) \div 100) + 1],
                   p99 |-> sorted[((n * 99) \div 100) + 1]]

\* PerformanceMonitor.__init__, and no thread inside a call
MonitorNew ==
    /\ metrics = << >>
    /\ mlock = None
    /\ mpc = [t \in Threads |-> "idle"]
    /\ marg = [t \in Threads |->
                 [call |-> "none", op |-> "mcp_routing", duration |-> 50]]
    /\ mloc = [t \in Threads |->
                 [nested |-> FALSE, i |-> 0, acc |-> EmptyDict,
                  ret |-> EmptyDict]]
    /\ mstarted = 0

ClassifyIdle == cl_msg = << >> /\ cl_kind = None

\* PreToolUseHook.__init__ with the environment's defaults, no call made
HookNew ==
    /\ hook = [enable_smart_routing |-> TRUE,
               enable_selective_activation |-> TRUE]
    /\ hook_ret = [op |-> "none", n |-> 0]
    /\ bridge_requests = 0

\* MorphToolInterceptor.__init__ in a process without flags or settings
InterceptorNew ==
    /\ session_stats = [total_operations |-> 0, morph_operations |-> 0,
                        native_operations |-> 0, fallback_operations |-> 0,
                        start_time |-> [datetime |-> 0]]
    /\ environ = {}
    /\ argv = << >>
    /\ icpt_ret = [op |-> "none"]

\* the threads that use the RequestBatcher: two callers and the threads of
\* the Timer objects
Callers == {"c1", "c2"}

\* RequestBatcher.__init__(batch_size), lines 118-123, and no thread inside
\* add_request
RequestBatcherInit(size) ==
    /\ batch_size = size
    /\ pending_requests = << >>
    /\ timer = << >>
    /\ batch_lock = None
    /\ bpc = [c \in Callers |-> "idle"]
    /\ bloc = [c \in Callers |-> [request |-> 0, batch |-> << >>]]
    /\ timers = << >>
    /\ callbacks = << >>
    /\ submitted = 0

\* the default of batch_size, line 118
DefaultBatchSize == 10

\* batcher = RequestBatcher(), line 162
BatcherNew == RequestBatcherInit(DefaultBatchSize)

NoKey == [called |-> FALSE]

UtilNew ==
    /\ key_ret = [prev |-> NoKey, last |-> NoKey]
    /\ BatcherNew

Procs == {"p1", "p2"}

\* the error kinds the breaker specification produces
BreakerKinds == {"timeout", "server_unavailable"}

ProcIdle ==
    [pc |-> "idle", kind |-> None, response |-> [action |-> "none"],
     records |-> << >>, stats |-> << >>, cb_read |-> 0]

\* no stats file yet, and no call made on the handler
HandlerNew ==
    /\ stats_file = << >>
    /\ response = [action |-> "none"]
    /\ last_op = [op |-> "none"]
    /\ prev_file = << >>
    /\ calls = 0
    /\ streak = [k \in BreakerKinds |-> 0]
    /\ streak_since = [k \in BreakerKinds |-> 0]
    /\ history = << >>
    /\ proc = [p \in Procs |-> ProcIdle]

otherThanCache ==
    <<monitorVars, classifyVars, handlerVars, hookVars, interceptVars,
      utilVars>>
otherThanMonitor ==
    <<now, cacheVars, threadVars, classifyVars, handlerVars, hookVars,
      interceptVars,
      utilVars>>
otherThanClassify ==
    <<now, cacheVars, threadVars, monitorVars, handlerVars, hookVars,
      interceptVars,
      utilVars>>
otherThanHandler ==
    <<cacheVars, threadVars, monitorVars, classifyVars, hookVars,
      interceptVars,
      utilVars>>

(***************************************************************************)
(* Sequential use of one LRUCache.                                         *)
(***************************************************************************)
Tick ==
    /\ now + TickSeconds <= MaxNow
    /\ now' = now + TickSeconds

\* the keys of the cache
CachedKeys(c) == {c[i].key : i \in 1..Len(c)}

\* the keys in the order of their last use, the least recently used
\* first, as the callers see it: a set and a successful get use a key
Touch(recency, k) == SelectSeq(recency, LAMBDA x : x # k) \o <<k>>
Known(recency, keys) == SelectSeq(recency, LAMBDA x : x \in keys)

\* cache_ret of a set also tells which keys the call removed; every
\* cache_ret carries the order of last use of the keys still stored
CacheSet(k, v) ==
    /\ cache' = LRUSet(cache, k, v, now, max_size)
    /\ cache_ret' = [op |-> "set", key |-> k, value |-> v, ret |-> None,
                     evicted |-> (CachedKeys(cache) \cup {k}) \ CachedKeys(cache'),
                     recency |-> Known(Touch(cache_ret.recency, k),
                                       CachedKeys(cache'))]
    /\ UNCHANGED <<now, max_size, hits, misses, threadVars>>
    /\ UNCHANGED otherThanCache

\* cache_ret of a get also tells the entry the call found, if any
CacheGet(k) ==
    /\ hits + misses < MaxGets
    /\ LET r == LRUGet(cache, hits, misses, k, now) IN
        /\ cache' = r.cache
        /\ hits' = r.hits
        /\ misses' = r.misses
        /\ cache_ret' = [op |-> "get", key |-> k, ret |-> r.ret,
                         found |-> IF HasKey(cache, k)
                                   THEN <<cache[KeyIndex(cache, k)]>>
                                   ELSE << >>,
                         recency |-> Known(IF r.ret # None
                                           THEN Touch(cache_ret.recency, k)
                                           ELSE cache_ret.recency,
                                           CachedKeys(r.cache))]
    /\ UNCHANGED <<now, max_size, threadVars>>
    /\ UNCHANGED otherThanCache

CacheGetStats ==
    /\ cache_ret' = [op |-> "get_stats",
                     ret |-> LRUGetStats(cache, hits, misses, max_size),
                     recency |-> cache_ret.recency]
    /\ UNCHANGED <<now, max_size, cache, hits, misses, threadVars>>
    /\ UNCHANGED otherThanCache

CacheTick ==
    /\ Tick
    /\ UNCHANGED <<cacheVars, threadVars>>
    /\ UNCHANGED otherThanCache

InitCache ==
    /\ now = 0
    /\ CacheNew
    /\ ThreadsIdle
    /\ MonitorNew
    /\ ClassifyIdle
    /\ HookNew
    /\ InterceptorNew
    /\ UtilNew
    /\ HandlerNew

NextCache ==
    \/ \E k \in CacheKeys, v \in CacheValues : CacheSet(k, v)
    \/ \E k \in CacheKeys : CacheGet(k)
    \/ CacheGetStats
    \/ CacheTick


SpecCache == InitCache /\ [][NextCache]_vars

\* C1: after every completed set or get the number of stored entries is at
\* most max_size, for every max_size >= 1.
C1_SizeBounded == Len(cache) <= max_size

\* a set of a new key into a full cache has completed (an eviction happened)
C1_Witness ==
    /\ cache_ret.op = "set"
    /\ cache_ret.evicted # {}
    /\ max_size = MaxCacheSize
    /\ Len(cache) = max_size
    /\ hits > 0
\* this step is a completed get of key k
IsGetStep(k) ==
    /\ hits' + misses' = hits + misses + 1
    /\ cache_ret'.op = "get"
    /\ cache_ret'.key = k

\* this step is a completed set
IsSetStep ==
    /\ cache_ret'.op = "set"
    /\ now' = now
    /\ hits' + misses' = hits + misses
    /\ <<cache, cache_ret>>' # <<cache, cache_ret>>

\* the entries of cache c
Entries(c) == {c[i] : i \in 1..Len(c)}

\* what C19 asks of one step
TtlStep ==
    /\ \A k \in CacheKeys : IsGetStep(k) =>
          IF HasKey(cache, k)
          THEN LET e == cache[KeyIndex(cache, k)] IN
               IF now < e.ts + ttl_seconds
               THEN /\ cache_ret'.ret = e.value
                    /\ hits' = hits + 1
                    /\ e \in Entries(cache')
               ELSE /\ cache_ret'.ret = None
                    /\ misses' = misses + 1
                    /\ ~HasKey(cache', k)
          ELSE /\ cache_ret'.ret = None
               /\ misses' = misses + 1
               /\ ~HasKey(cache', k)
    /\ IsSetStep =>
          [key |-> cache_ret'.key, value |-> cache_ret'.value, ts |-> now]
              \in Entries(cache')
    /\ \A e \in Entries(cache') :
          \/ e \in Entries(cache)
          \/ IsSetStep /\ e.key = cache_ret'.key /\ e.ts = now

\* C19: an entry set at time t is returned unchanged by every get of its
\* key at a time < t + ttl (if not evicted), whatever gets come in between;
\* a get at a time >= t + ttl returns absent, counts a miss and removes the
\* entry, so that no later get returns it until it is set again.  Step by
\* step: a set stores the entry with the time of the set, no step alters a
\* stored entry or brings one back, and a get answers by the age of the
\* entry it finds.
C19_VisibleWithinTtl == [][TtlStep]_vars

\* a get at the time t + ttl has found the entry set at t, returned absent
\* and removed it, after an earlier get had returned it
C19_Witness ==
    /\ cache_ret.op = "get"
    /\ cache_ret.found # << >>
    /\ now = cache_ret.found[1].ts + ttl_seconds
    /\ cache_ret.ret = None
    /\ ~HasKey(cache, cache_ret.key)
    /\ hits = 1
    /\ misses = 1

\* what C20 asks of one step
EvictionStep ==
    IsSetStep =>
        LET k == cache_ret'.key IN
        IF ~HasKey(cache, k) /\ Len(cache) + 1 > max_size
        THEN /\ cache_ret'.evicted = {Head(cache_ret.recency)}
             /\ CachedKeys(cache') =
                    (CachedKeys(cache) \cup {k}) \ {Head(cache_ret.recency)}
             /\ k \in CachedKeys(cache')
        ELSE /\ cache_ret'.evicted = {}
             /\ CachedKeys(cache') = CachedKeys(cache) \cup {k}

\* C20: when a set of a new key makes the cache exceed max_size, exactly
\* one entry is evicted and it is the least recently used one, every
\* successful get and every set counting as a use; so after filling the
\* cache, a get of key k followed by the insertion of a new key leaves k
\* stored and evicts the oldest key not touched.
C20_EvictsLeastRecentlyUsed == [][EvictionStep]_vars

\* a cache of two keys was filled with k1 then k2, k1 was got, and the
\* set of k3 has evicted k2 and left k1
C20_Witness ==
    /\ cache_ret.op = "set"
    /\ cache_ret.key = "k3"
    /\ cache_ret.evicted = {"k2"}
    /\ max_size = 2
    /\ hits = 1
    /\ misses = 0
    /\ cache_ret.recency = <<"k1", "k3">>
    /\ cache[1].key = "k1"

\* this step is a completed get, whatever it did to the counters
IsAnyGetStep ==
    /\ cache_ret'.op = "get"
    /\ now' = now
    /\ <<cache, hits, misses, cache_ret>>' # <<cache, hits, misses, cache_ret>>

\* key k is present in cache c and unexpired at time t
PresentUnexpired(c, k, t) ==
    \E e \in Entries(c) : e.key = k /\ t - e.ts < ttl_seconds

\* what C21 asks of one step
CountingStep ==
    IF IsAnyGetStep
    THEN IF PresentUnexpired(cache, cache_ret'.key, now)
         THEN hits' = hits + 1 /\ misses' = misses
         ELSE hits' = hits /\ misses' = misses + 1
    ELSE hits' = hits /\ misses' = misses

\* C21: every completed get adds exactly 1 to exactly one counter, hits
\* when the key is present and unexpired and misses otherwise, and no other
\* operation (set, get_stats, the passing of time) changes either counter;
\* so neither counter ever decreases and hits + misses counts the gets.
C21_OneCounterPerGet == [][CountingStep]_vars

\* a hit and then a miss on a key that was never cached, with a set before
C21_Witness ==
    /\ cache_ret.op = "get"
    /\ cache_ret.found = << >>
    /\ cache_ret.ret = None
    /\ hits = 1
    /\ misses = 1
    /\ Len(cache) = 2

\* the claim as stated: hit_rate is hits / (hits + misses), between 0 and 1
C22_HitRateIsRatio ==
    cache_ret.op = "get_stats" =>
        LET r == cache_ret.ret.hit_rate IN
            /\ r.num * (hits + misses) = hits * r.den
            /\ 0 <= r.num /\ r.num <= r.den

\* C22: get_stats reports hit_rate = 100 * hits / (hits + misses), a
\* percentage between 0 and 100, and 0 when no get has been made yet.
C22_HitRateIsPercentage ==
    cache_ret.op = "get_stats" =>
        LET r == cache_ret.ret.hit_rate IN
            /\ r.den > 0
            /\ cache_ret.ret.hits = hits /\ cache_ret.ret.misses = misses
            /\ IF hits + misses = 0
               THEN r.num = 0
               ELSE r.num * (hits + misses) = 100 * hits * r.den
            /\ 0 <= r.num /\ r.num <= 100 * r.den

\* statistics read after one hit and one miss: 50 per cent
C22_Witness ==
    /\ cache_ret.op = "get_stats"
    /\ hits = 1
    /\ misses = 1
    /\ cache_ret.ret.hit_rate.num * 2 = 100 * cache_ret.ret.hit_rate.den

(***************************************************************************)
(* Threads sharing one LRUCache, one step per statement.  get and set run  *)
(* inside "with self.lock"; get_stats (lines 56-67) takes no lock and      *)
(* reads hits, misses and len(cache) one after the other.                  *)
(***************************************************************************)
\* a cache filled by max_size sets at time 0
FilledCache(n) ==
    [i \in 1..n |->
        [key |-> CHOOSE k \in CacheKeys : k = "k" \o ToString(i),
         value |-> "v1", ts |-> 0]]

InitThreads ==
    /\ now \in {0, ttl_seconds}
    /\ max_size \in 1..MaxCacheSize
    /\ cache = FilledCache(max_size)
    /\ hits = 0
    /\ misses = 0
    /\ cache_ret = [op |-> "none"]
    /\ ThreadsIdle
    /\ MonitorNew
    /\ ClassifyIdle
    /\ HookNew
    /\ InterceptorNew
    /\ UtilNew
    /\ HandlerNew

Goto(t, pos) == tpc' = [tpc EXCEPT ![t] = pos]

\* a thread calls set, get or get_stats
ThreadCall(t, op, k, v) ==
    /\ tpc[t] = "idle"
    /\ started < MaxThreadOps
    /\ started' = started + 1
    /\ targ' = [targ EXCEPT ![t] = [op |-> op, key |-> k, value |-> v]]
    /\ Goto(t, CASE op = "set" -> "set_lock"
                 [] op = "get" -> "get_lock"
                 [] OTHER -> "gs_h1")
    /\ UNCHANGED <<now, cacheVars, lock, tloc>>
    /\ UNCHANGED otherThanCache

\* with self.lock: (set, line 46; get, line 29)
ThreadAcquire(t) ==
    /\ tpc[t] \in {"set_lock", "get_lock"}
    /\ lock = None
    /\ lock' = t
    /\ Goto(t, IF tpc[t] = "set_lock" THEN "set_move" ELSE "get_look")
    /\ UNCHANGED <<now, cacheVars, targ, tloc, started>>
    /\ UNCHANGED otherThanCache

\* set, lines 47-48
SetMove(t) ==
    /\ tpc[t] = "set_move"
    /\ cache' = IF HasKey(cache, targ[t].key)
                THEN MoveToEnd(cache, targ[t].key) ELSE cache
    /\ Goto(t, "set_store")
    /\ UNCHANGED <<now, max_size, hits, misses, cache_ret, lock, targ, tloc,
                   started>>
    /\ UNCHANGED otherThanCache

\* set, line 50
SetStore(t) ==
    /\ tpc[t] = "set_store"
    /\ cache' = SetItem(cache, targ[t].key, targ[t].value, now)
    /\ Goto(t, "set_evict")
    /\ UNCHANGED <<now, max_size, hits, misses, cache_ret, lock, targ, tloc,
                   started>>
    /\ UNCHANGED otherThanCache

\* set, lines 53-54, and the end of the with block
SetEvict(t) ==
    /\ tpc[t] = "set_evict"
    /\ cache' = IF Len(cache) > max_size THEN PopOldest(cache) ELSE cache
    /\ lock' = None
    /\ Goto(t, "idle")
    /\ UNCHANGED <<now, max_size, hits, misses, cache_ret, targ, tloc, started>>
    /\ UNCHANGED otherThanCache

\* get, lines 30-32
GetLook(t) ==
    /\ tpc[t] = "get_look"
    /\ Goto(t, IF HasKey(cache, targ[t].key)
               THEN IF Fresh(cache[KeyIndex(cache, targ[t].key)], now)
                    THEN "get_move" ELSE "get_del"
               ELSE "get_miss")
    /\ tloc' = [tloc EXCEPT ![t].ret =
                  IF HasKey(cache, targ[t].key)
                  THEN cache[KeyIndex(cache, targ[t].key)].value ELSE None]
    /\ UNCHANGED <<now, cacheVars, lock, targ, started>>
    /\ UNCHANGED otherThanCache

\* get, line 34
GetMove(t) ==
    /\ tpc[t] = "get_move"
    /\ cache' = MoveToEnd(cache, targ[t].key)
    /\ Goto(t, "get_hit")
    /\ UNCHANGED <<now, max_size, hits, misses, cache_ret, lock, targ, tloc,
                   started>>
    /\ UNCHANGED otherThanCache

\* get, lines 35-36, and the end of the with block
GetHit(t) ==
    /\ tpc[t] = "get_hit"
    /\ hits' = hits + 1
    /\ lock' = None
    /\ Goto(t, "idle")
    /\ UNCHANGED <<now, max_size, cache, misses, cache_ret, targ, tloc, started>>
    /\ UNCHANGED otherThanCache

\* get, line 39
GetDel(t) ==
    /\ tpc[t] = "get_del"
    /\ cache' = DelKey(cache, targ[t].key)
    /\ Goto(t, "get_miss")
    /\ UNCHANGED <<now, max_size, hits, misses, cache_ret, lock, targ, tloc,
                   started>>
    /\ UNCHANGED otherThanCache

\* get, lines 41-42, and the end of the with block
GetMiss(t) ==
    /\ tpc[t] = "get_miss"
    /\ misses' = misses + 1
    /\ lock' = None
    /\ tloc' = [tloc EXCEPT ![t].ret = None]
    /\ Goto(t, "idle")
    /\ UNCHANGED <<now, max_size, cache, hits, cache_ret, targ, started>>
    /\ UNCHANGED otherThanCache

\* get_stats, line 58: the read of self.hits
StatsReadHits(t) ==
    /\ tpc[t] = "gs_h1"
    /\ tloc' = [tloc EXCEPT ![t].h1 = hits]
    /\ Goto(t, "gs_total")
    /\ UNCHANGED <<now, cacheVars, lock, targ, started>>
    /\ UNCHANGED otherThanCache

\* get_stats, line 58: the read of self.misses and the sum
StatsTotal(t) ==
    /\ tpc[t] = "gs_total"
    /\ tloc' = [tloc EXCEPT ![t].total = tloc[t].h1 + misses]
    /\ Goto(t, "gs_rate")
    /\ UNCHANGED <<now, cacheVars, lock, targ, started>>
    /\ UNCHANGED otherThanCache

\* get_stats, line 59
StatsRate(t) ==
    /\ tpc[t] = "gs_rate"
    /\ tloc' = [tloc EXCEPT ![t].rate = HitRate(hits, tloc[t].total)]
    /\ Goto(t, "gs_hits")
    /\ UNCHANGED <<now, cacheVars, lock, targ, started>>
    /\ UNCHANGED otherThanCache

\* get_stats, line 62
StatsHits(t) ==
    /\ tpc[t] = "gs_hits"
    /\ tloc' = [tloc EXCEPT ![t].rhits = hits]
    /\ Goto(t, "gs_misses")
    /\ UNCHANGED <<now, cacheVars, lock, targ, started>>
    /\ UNCHANGED otherThanCache

\* get_stats, line 63
StatsMisses(t) ==
    /\ tpc[t] = "gs_misses"
    /\ tloc' = [tloc EXCEPT ![t].rmisses = misses]
    /\ Goto(t, "gs_size")
    /\ UNCHANGED <<now, cacheVars, lock, targ, started>>
    /\ UNCHANGED otherThanCache

\* get_stats, lines 64-67: len(self.cache), max_size, and the return
StatsSize(t) ==
    /\ tpc[t] = "gs_size"
    /\ tloc' = [tloc EXCEPT ![t].stats =
                  [hits |-> tloc[t].rhits, misses |-> tloc[t].rmisses,
                   hit_rate |-> tloc[t].rate, size |-> Len(cache),
                   max_size |-> max_size]]
    /\ Goto(t, "gs_done")
    /\ UNCHANGED <<now, cacheVars, lock, targ, started>>
    /\ UNCHANGED otherThanCache

\* the caller takes the stats
StatsReturn(t) ==
    /\ tpc[t] = "gs_done"
    /\ Goto(t, "idle")
    /\ UNCHANGED <<now, cacheVars, lock, targ, tloc, started>>
    /\ UNCHANGED otherThanCache

NextThreads ==
    \E t \in Threads :
        \/ \E op \in {"set", "get", "get_stats"}, k \in CacheKeys :
               ThreadCall(t, op, k, "v2")
        \/ ThreadAcquire(t)
        \/ SetMove(t)
        \/ SetStore(t)
        \/ SetEvict(t)
        \/ GetLook(t)
        \/ GetMove(t)
        \/ GetHit(t)
        \/ GetDel(t)
        \/ GetMiss(t)
        \/ StatsReadHits(t)
        \/ StatsTotal(t)
        \/ StatsRate(t)
        \/ StatsHits(t)
        \/ StatsMisses(t)
        \/ StatsSize(t)
        \/ StatsReturn(t)

SpecThreads == InitThreads /\ [][NextThreads]_vars

\* the stats a get_stats call has just returned to thread t
Returned(t) == tpc[t] = "gs_done"

\* hits, misses and hit_rate of one report agree:
\* hit_rate = hits / (hits + misses) * 100, and 0 without traffic
StatsConsistent(s) ==
    IF s.hits + s.misses = 0
    THEN s.hit_rate.num = 0
    ELSE s.hit_rate.num * (s.hits + s.misses) = 100 * s.hits * s.hit_rate.den

\* C2: under any interleaving of threads calling get, set and get_stats on
\* one LRUCache, no call sees or reports more than max_size entries, and the
\* hits, misses and hit_rate one get_stats call reports are consistent.
C2_NoPartialState ==
    \A t \in Threads :
        Returned(t) =>
            /\ tloc[t].stats.size <= max_size
            /\ StatsConsistent(tloc[t].stats)
(***************************************************************************)
(* Threads sharing one PerformanceMonitor.  Every method runs inside       *)
(* "with self.lock" (a threading.Lock, which its holder cannot take        *)
(* again); get_all_stats calls get_stats for every operation while it      *)
(* holds the lock (line 113).                                              *)
(***************************************************************************)
MGoto(t, pos) == mpc' = [mpc EXCEPT ![t] = pos]

\* a thread calls record_timing, get_stats or get_all_stats
MonCall(t, call, op, d) ==
    /\ mpc[t] = "idle"
    /\ mstarted < MaxThreadOps
    /\ mstarted' = mstarted + 1
    /\ marg' = [marg EXCEPT ![t] = [call |-> call, op |-> op, duration |-> d]]
    /\ mloc' = [mloc EXCEPT ![t] = [nested |-> FALSE, i |-> 0,
                                    acc |-> EmptyDict, ret |-> EmptyDict]]
    /\ MGoto(t, CASE call = "record_timing" -> "rt_lock"
                  [] call = "get_stats" -> "gs_lock"
                  [] OTHER -> "gas_lock")
    /\ UNCHANGED <<metrics, mlock>>
    /\ UNCHANGED otherThanMonitor

\* with self.lock: lines 78, 90 and 112; the thread waits until it is free
MonAcquire(t) ==
    /\ mpc[t] \in {"rt_lock", "gs_lock", "gas_lock"}
    /\ mlock = None
    /\ mlock' = t
    /\ MGoto(t, CASE mpc[t] = "rt_lock" -> "rt_body"
                  [] mpc[t] = "gs_lock" -> "gs_body"
                  [] OTHER -> "gas_iter")
    /\ mloc' = [mloc EXCEPT ![t].i = 1]
    /\ UNCHANGED <<metrics, marg, mstarted>>
    /\ UNCHANGED otherThanMonitor

\* record_timing, lines 79-86, and the end of the with block
MonRecord(t) ==
    /\ mpc[t] = "rt_body"
    /\ metrics' = RecordTiming(metrics, marg[t].op, marg[t].duration)
    /\ mlock' = None
    /\ MGoto(t, "idle")
    /\ UNCHANGED <<marg, mloc, mstarted>>
    /\ UNCHANGED otherThanMonitor

\* get_stats, lines 91-108, and the end of its with block; a call made by
\* get_all_stats continues the comprehension
MonGetStats(t) ==
    /\ mpc[t] = "gs_body"
    /\ mlock' = None
    /\ IF mloc[t].nested
       THEN LET op == metrics[mloc[t].i].op IN
            /\ mloc' = [mloc EXCEPT
                   ![t].acc = [o \in DOMAIN mloc[t].acc \cup {op} |->
                                 IF o = op THEN StatsOf(metrics, op)
                                 ELSE mloc[t].acc[o]],
                   ![t].i = mloc[t].i + 1]
            /\ MGoto(t, "gas_iter")
       ELSE /\ mloc' = [mloc EXCEPT ![t].ret = StatsOf(metrics, marg[t].op)]
            /\ MGoto(t, "done")
    /\ UNCHANGED <<metrics, marg, mstarted>>
    /\ UNCHANGED otherThanMonitor

\* get_all_stats, line 113: the next operation of the comprehension, or its
\* end, the end of the with block and the return
MonGetAll(t) ==
    /\ mpc[t] = "gas_iter"
    /\ IF mloc[t].i <= Len(metrics)
       THEN /\ mloc' = [mloc EXCEPT ![t].nested = TRUE]
            /\ MGoto(t, "gs_lock")
            /\ UNCHANGED mlock
       ELSE /\ mloc' = [mloc EXCEPT ![t].ret = mloc[t].acc]
            /\ mlock' = None
            /\ MGoto(t, "done")
    /\ UNCHANGED <<metrics, marg, mstarted>>
    /\ UNCHANGED otherThanMonitor

\* the caller takes the result
MonReturn(t) ==
    /\ mpc[t] = "done"
    /\ MGoto(t, "idle")
    /\ UNCHANGED <<metrics, mlock, marg, mloc, mstarted>>
    /\ UNCHANGED otherThanMonitor

NextMonitor ==
    \E t \in Threads :
        \/ \E call \in {"record_timing", "get_stats", "get_all_stats"},
              op \in MonitorOps, d \in SampleValues : MonCall(t, call, op, d)
        \/ MonAcquire(t)
        \/ MonRecord(t)
        \/ MonGetStats(t)
        \/ MonGetAll(t)
        \/ MonReturn(t)

InitMonitor ==
    /\ now = 0
    /\ CacheNew
    /\ max_size = 1
    /\ ThreadsIdle
    /\ MonitorNew
    /\ ClassifyIdle
    /\ HookNew
    /\ InterceptorNew
    /\ UtilNew
    /\ HandlerNew

SpecMonitor == InitMonitor /\ [][NextMonitor]_vars

\* the map get_all_stats is to return: one entry per recorded operation
AllStats(m) == [op \in {m[i].op : i \in 1..Len(m)} |-> StatsOf(m, op)]

\* thread t is inside get_all_stats and has not returned yet
InGetAllStats(t) == marg[t].call = "get_all_stats" /\ mpc[t] \notin {"idle", "done"}

\* thread t waits for the lock of the monitor
WaitsForLock(t) == mpc[t] \in {"rt_lock", "gs_lock", "gas_lock"}

\* C3: get_all_stats terminates for every monitor state, also with recorded
\* samples, and returns one entry per recorded operation equal to
\* get_stats(op): a thread inside get_all_stats never waits for a lock that
\* nobody will release (the one it holds itself), and what it returns is
\* the map of the per-operation statistics.
C3_GetAllStatsTerminates ==
    \A t \in Threads :
        /\ (InGetAllStats(t) /\ WaitsForLock(t)) => mlock # t
        /\ (marg[t].call = "get_all_stats" /\ mpc[t] = "done")
              => mloc[t].ret = AllStats(metrics)

(***************************************************************************)
(* record_timing called in sequence (performance_optimizer.py:76-86).  The *)
(* duration of the n-th recording of an operation is n, so that a sample   *)
(* names its arrival; mstarted counts the recordings of every operation.   *)
(* One operation is recorded often enough to overrun the window.           *)
(***************************************************************************)
RecordingsAllowed(op) ==
    IF op = "mcp_routing" THEN MaxRecordings ELSE MaxOtherRecordings

WindowRecord(op) ==
    /\ mstarted[op] < RecordingsAllowed(op)
    /\ metrics' = RecordTiming(metrics, op, mstarted[op] + 1)
    /\ mstarted' = [mstarted EXCEPT ![op] = @ + 1]
    /\ UNCHANGED <<mlock, mpc, marg, mloc>>
    /\ UNCHANGED otherThanMonitor

InitWindow ==
    /\ now = 0
    /\ CacheNew
    /\ max_size = 1
    /\ ThreadsIdle
    /\ metrics = << >>
    /\ mlock = None
    /\ mpc = [t \in Threads |-> "idle"]
    /\ marg = [t \in Threads |->
                 [call |-> "none", op |-> "mcp_routing", duration |-> 50]]
    /\ mloc = [t \in Threads |->
                 [nested |-> FALSE, i |-> 0, acc |-> EmptyDict,
                  ret |-> EmptyDict]]
    /\ mstarted = [op \in MonitorOps |-> 0]
    /\ ClassifyIdle
    /\ HookNew
    /\ InterceptorNew
    /\ UtilNew
    /\ HandlerNew

NextWindow == \E op \in MonitorOps : WindowRecord(op)

SpecWindow == InitWindow /\ [][NextWindow]_vars

\* the series the monitor holds for operation op
SeriesOf(op) ==
    IF OpIndex(metrics, op) = 0 THEN << >>
    ELSE metrics[OpIndex(metrics, op)].samples

\* C23: after any sequence of record_timing calls every operation's series
\* holds at most 1000 samples, namely the most recent min(n, 1000) of the n
\* recorded for that operation, in arrival order, whatever was recorded for
\* the other operation; after 1500 recordings these are the last 1000.
C23_WindowKeepsLatest ==
    \A op \in MonitorOps :
        LET n == mstarted[op]
            series == SeriesOf(op)
        IN  /\ Len(series) <= 1000
            /\ Len(series) = IF n < 1000 THEN n ELSE 1000
            /\ \A i \in 1..Len(series) : series[i] = n - Len(series) + i
            /\ n = 1500 => Len(series) = 1000 /\ series[1] = 501
                              /\ series[1000] = 1500

\* 1500 recordings for one operation, with recordings for the other between
C23_Witness ==
    /\ mstarted["mcp_routing"] = 1500
    /\ mstarted["main_execution"] = 2
    /\ Len(SeriesOf("mcp_routing")) = 1000
    /\ SeriesOf("main_execution") = <<1, 2>>

(***************************************************************************)
(* get_stats on a window of samples (performance_optimizer.py:88-108).     *)
(* The monitor starts with one recorded operation whose window is one of   *)
(* four shapes of every length up to MaxWindow: rising (the fixture        *)
(* 1..100 is the rising window of length 100), falling, scattered, and     *)
(* two values alternating.  A window is what record_timing left.           *)
(***************************************************************************)
WindowShapes == {"rising", "falling", "scattered", "alternating"}

WindowOf(shape, n) ==
    [i \in 1..n |->
        CASE shape = "rising" -> i
          [] shape = "falling" -> n + 1 - i
          [] shape = "scattered" -> (i * 37) % 101
          [] OTHER -> IF i % 2 = 1 THEN 150 ELSE 50]

StatsGet(op) ==
    /\ marg["t1"].call = "none"
    /\ marg' = [marg EXCEPT !["t1"] =
                   [call |-> "get_stats", op |-> op, duration |-> 50]]
    /\ mloc' = [mloc EXCEPT !["t1"].ret = StatsOf(metrics, op)]
    /\ UNCHANGED <<metrics, mlock, mpc, mstarted>>
    /\ UNCHANGED otherThanMonitor

InitStats ==
    /\ now = 0
    /\ CacheNew
    /\ max_size = 1
    /\ ThreadsIdle
    /\ \E shape \in WindowShapes, n \in 1..MaxWindow :
          metrics = <<[op |-> "mcp_routing", samples |-> WindowOf(shape, n)]>>
    /\ mlock = None
    /\ mpc = [t \in Threads |-> "idle"]
    /\ marg = [t \in Threads |->
                 [call |-> "none", op |-> "mcp_routing", duration |-> 50]]
    /\ mloc = [t \in Threads |->
                 [nested |-> FALSE, i |-> 0, acc |-> EmptyDict,
                  ret |-> EmptyDict]]
    /\ mstarted = 0
    /\ ClassifyIdle
    /\ HookNew
    /\ InterceptorNew
    /\ UtilNew
    /\ HandlerNew

NextStats == \E op \in MonitorOps : StatsGet(op)

SpecStats == InitStats /\ [][NextStats]_vars

\* v stands at 0-based index k of window w sorted in ascending order
AtSortedIndex(w, k, v) ==
    /\ \E i \in 1..Len(w) : w[i] = v
    /\ Cardinality({i \in 1..Len(w) : w[i] < v}) <= k
    /\ k < Cardinality({i \in 1..Len(w) : w[i] <= v})

\* get_stats has returned to the caller
StatsReturned == marg["t1"].call = "get_stats"

\* C24: for every non-empty window of n samples get_stats returns count = n,
\* the least and the greatest sample, and the samples at the 0-based indices
\* n div 2, floor(0.95 n) and floor(0.99 n) of the sorted window as p50,
\* p95 and p99, all three indices lying in 0..n-1; for the 100 samples
\* 1..100, p95 is the sample at index 95 (the value 96).
C24_FloorIndexedPercentiles ==
    (StatsReturned /\ SeriesOf(marg["t1"].op) # << >>) =>
        LET w == SeriesOf(marg["t1"].op)
            n == Len(w)
            r == mloc["t1"].ret
        IN  /\ r.count = n
            /\ AtSortedIndex(w, 0, r.min)
            /\ AtSortedIndex(w, n - 1, r.max)
            /\ AtSortedIndex(w, n \div 2, r.p50)
            /\ AtSortedIndex(w, (95 * n) \div 100, r.p95)
            /\ AtSortedIndex(w, (99 * n) \div 100, r.p99)
            /\ {n \div 2, (95 * n) \div 100, (99 * n) \div 100} \subseteq 0..(n - 1)
            /\ w = [i \in 1..100 |-> i] => r.p95 = w[95 + 1] /\ r.p95 = 96

\* get_stats on the fixture 1..100
C24_Witness ==
    /\ StatsReturned
    /\ SeriesOf(marg["t1"].op) = [i \in 1..100 |-> i]
    /\ mloc["t1"].ret.count = 100
    /\ mloc["t1"].ret.p95 = 96

(***************************************************************************)
(* MorphErrorHandler.classify_error (morph_error_handler.py:115-151).      *)
(* A message is the sequence of its characters.                            *)
(***************************************************************************)
UpperCase ==
    <<"A", "B", "C", "D", "E", "F", "G", "H", "I", "J", "K", "L", "M",
      "N", "O", "P", "Q", "R", "S", "T", "U", "V", "W", "X", "Y", "Z">>
LowerCase ==
    <<"a", "b", "c", "d", "e", "f", "g", "h", "i", "j", "k", "l", "m",
      "n", "o", "p", "q", "r", "s", "t", "u", "v", "w", "x", "y", "z">>

\* str.lower() of one character
LowerChar(ch) ==
    IF \E i \in 1..Len(UpperCase) : UpperCase[i] = ch
    THEN LowerCase[CHOOSE i \in 1..Len(UpperCase) : UpperCase[i] = ch]
    ELSE ch

\* str.lower()
ToLower(msg) == [i \in 1..Len(msg) |-> LowerChar(msg[i])]

\* keyword in text
Contains(text, kw) ==
    \E i \in 0..(Len(text) - Len(kw)) :
        \A j \in 1..Len(kw) : text[i + j] = kw[j]

\* any(keyword in error_lower for keyword in [...])
AnyKeyword(text, kws) == \E kw \in kws : Contains(text, kw)

\* line 121
ConnectivityKeywords ==
    {<<"c", "o", "n", "n", "e", "c", "t", "i", "o", "n">>,
     <<"s", "e", "r", "v", "e", "r">>,
     <<"u", "n", "a", "v", "a", "i", "l", "a", "b", "l", "e">>,
     <<"u", "n", "r", "e", "a", "c", "h", "a", "b", "l", "e">>}

\* line 125
AuthKeywords ==
    {<<"a", "p", "i", " ", "k", "e", "y">>,
     <<"a", "u", "t", "h", "e", "n", "t", "i", "c", "a", "t", "i", "o", "n">>,
     <<"u", "n", "a", "u", "t", "h", "o", "r", "i", "z", "e", "d">>,
     <<"f", "o", "r", "b", "i", "d", "d", "e", "n">>}

\* line 129
TimeoutKeywords ==
    {<<"t", "i", "m", "e", "o", "u", "t">>,
     <<"t", "i", "m", "e", "d", " ", "o", "u", "t">>,
     <<"d", "e", "a", "d", "l", "i", "n", "e">>}

\* line 133
FileLockKeywords ==
    {<<"f", "i", "l", "e", " ", "l", "o", "c", "k">>,
     <<"l", "o", "c", "k", "e", "d">>,
     <<"b", "u", "s", "y">>}

\* line 136
PermissionKeywords ==
    {<<"p", "e", "r", "m", "i", "s", "s", "i", "o", "n">>,
     <<"a", "c", "c", "e", "s", "s", " ", "d", "e", "n", "i", "e", "d">>,
     <<"n", "o", "t", " ", "p", "e", "r", "m", "i", "t", "t", "e", "d">>}

\* line 140
MemoryKeywords ==
    {<<"m", "e", "m", "o", "r", "y">>,
     <<"o", "u", "t", " ", "o", "f", " ", "m", "e", "m", "o", "r", "y">>,
     <<"a", "l", "l", "o", "c", "a", "t", "i", "o", "n">>}

\* line 144
NetworkKeywords ==
    {<<"n", "e", "t", "w", "o", "r", "k">>,
     <<"d", "n", "s">>,
     <<"c", "o", "n", "n", "e", "c", "t", "i", "o", "n", " ", "r", "e", "s", "e", "t">>}

\* line 148
ToolMappingKeywords ==
    {<<"t", "o", "o", "l", " ", "m", "a", "p", "p", "i", "n", "g">>,
     <<"i", "n", "v", "a", "l", "i", "d", " ", "t", "o", "o", "l">>,
     <<"u", "n", "k", "n", "o", "w", "n", " ", "t", "o", "o", "l">>}

ErrorTypes ==
    {"server_unavailable", "api_key_invalid", "timeout", "file_lock",
     "permission_denied", "memory_error", "network_error",
     "tool_mapping_error", "unknown_error"}

classify_error_CaseSensitive(error_message) ==
    LET error_lower == error_message IN
    IF AnyKeyword(error_lower, ConnectivityKeywords)
    THEN "server_unavailable"
    ELSE IF AnyKeyword(error_lower, AuthKeywords) THEN "api_key_invalid"
    ELSE IF AnyKeyword(error_lower, TimeoutKeywords) THEN "timeout"
    ELSE IF AnyKeyword(error_lower, FileLockKeywords) THEN "file_lock"
    ELSE IF AnyKeyword(error_lower, PermissionKeywords)
    THEN "permission_denied"
    ELSE IF AnyKeyword(error_lower, MemoryKeywords) THEN "memory_error"
    ELSE IF AnyKeyword(error_lower, NetworkKeywords) THEN "network_error"
    ELSE IF AnyKeyword(error_lower, ToolMappingKeywords)
    THEN "tool_mapping_error"
    ELSE "unknown_error"

classify_error(error_message) ==
    LET error_lower == ToLower(error_message) IN
    IF AnyKeyword(error_lower, ConnectivityKeywords)
    THEN "server_unavailable"
    ELSE IF AnyKeyword(error_lower, AuthKeywords) THEN "api_key_invalid"
    ELSE IF AnyKeyword(error_lower, TimeoutKeywords) THEN "timeout"
    ELSE IF AnyKeyword(error_lower, FileLockKeywords) THEN "file_lock"
    ELSE IF AnyKeyword(error_lower, PermissionKeywords)
    THEN "permission_denied"
    ELSE IF AnyKeyword(error_lower, MemoryKeywords) THEN "memory_error"
    ELSE IF AnyKeyword(error_lower, NetworkKeywords) THEN "network_error"
    ELSE IF AnyKeyword(error_lower, ToolMappingKeywords)
    THEN "tool_mapping_error"
    ELSE "unknown_error"

\* the words the messages of the classifier specification are made of
Fragments ==
    {<<"C", "o", "n", "n", "e", "c", "t", "i", "o", "n">>,
     <<"t", "i", "m", "e", "d", " ", "o", "u", "t">>,
     <<"R", "e", "q", "u", "e", "s", "t", " ", "t", "i", "m", "e", "o", "u", "t">>,
     <<"r", "e", "f", "u", "s", "e", "d">>,
     <<"S", "e", "r", "v", "e", "r">>,
     <<"u", "n", "a", "v", "a", "i", "l", "a", "b", "l", "e">>,
     <<"A", "P", "I", " ", "k", "e", "y">>,
     <<"U", "n", "a", "u", "t", "h", "o", "r", "i", "z", "e", "d">>,
     <<"d", "e", "a", "d", "l", "i", "n", "e">>,
     <<"F", "i", "l", "e", " ", "i", "s", " ", "L", "O", "C", "K", "E", "D">>,
     <<"b", "u", "s", "y">>,
     <<"P", "e", "r", "m", "i", "s", "s", "i", "o", "n">>,
     <<"A", "c", "c", "e", "s", "s", " ", "D", "e", "n", "i", "e", "d">>,
     <<"o", "u", "t", " ", "o", "f", " ", "m", "e", "m", "o", "r", "y">>,
     <<"a", "l", "l", "o", "c", "a", "t", "i", "o", "n">>,
     <<"N", "e", "t", "w", "o", "r", "k">>,
     <<"D", "N", "S">>,
     <<"c", "o", "n", "n", "e", "c", "t", "i", "o", "n", " ", "r", "e", "s", "e", "t">>,
     <<"U", "n", "k", "n", "o", "w", "n", " ", "t", "o", "o", "l">>,
     <<"i", "n", "v", "a", "l", "i", "d", " ", "t", "o", "o", "l">>,
     <<"e", "r", "r", "o", "r">>,
     <<"f", "a", "i", "l", "e", "d">>}

Space == <<" ">>

\* the messages: the empty one, one fragment, or two joined by a space
Messages ==
    {<< >>} \cup Fragments
        \cup {a \o Space \o b : a \in Fragments, b \in Fragments}

\* "Connection timed out"
MsgConnectionTimedOut ==
    <<"C", "o", "n", "n", "e", "c", "t", "i", "o", "n", " ", "t", "i", "m", "e", "d", " ", "o", "u", "t">>

\* "connection refused"
MsgConnectionRefused ==
    <<"c", "o", "n", "n", "e", "c", "t", "i", "o", "n", " ", "r", "e", "f", "u", "s", "e", "d">>

\* "Request timeout"
MsgRequestTimeout ==
    <<"R", "e", "q", "u", "e", "s", "t", " ", "t", "i", "m", "e", "o", "u", "t">>

\* "out of memory"
MsgOutOfMemory ==
    <<"o", "u", "t", " ", "o", "f", " ", "m", "e", "m", "o", "r", "y">>

\* "invalid tool"
MsgInvalidTool ==
    <<"i", "n", "v", "a", "l", "i", "d", " ", "t", "o", "o", "l">>

\* "busy"
MsgFileBusy ==
    <<"b", "u", "s", "y">>

\* "DNS failed"
MsgDnsFailure ==
    <<"D", "N", "S", " ", "f", "a", "i", "l", "e", "d">>

\* "API key"
MsgApiKey ==
    <<"A", "P", "I", " ", "k", "e", "y">>

\* "Permission"
MsgPermission ==
    <<"P", "e", "r", "m", "i", "s", "s", "i", "o", "n">>

\* "timed out"
MsgTimedOut ==
    <<"t", "i", "m", "e", "d", " ", "o", "u", "t">>

\* "error"
MsgTestError ==
    <<"e", "r", "r", "o", "r">>

(***************************************************************************)
(* MorphErrorHandler (morph_error_handler.py:71-510).  A dict is a         *)
(* function on its keys; None is << >> where the other values are          *)
(* sequences; the stats file is << >> when absent and <<document>>         *)
(* otherwise.  The constant texts of a response (reason, notes) are left   *)
(* out; session_id only goes to the log.                                   *)
(***************************************************************************)
Strategies ==
    {"native_tool", "retry_with_backoff", "batch_operation",
     "alternative_tool", "graceful_degradation", "fail_fast"}

\* self.config, lines 83-91
enable_circuit_breaker == TRUE
retry_delay_seconds == <<1, 2, 4>>

tool_fallback_mapping_EditAsWrite ==
    [t \in {"mcp__morph__read_file", "mcp__morph__write_file",
            "mcp__morph__edit_file", "mcp__morph__list_directory",
            "mcp__morph__search_files"} |->
        CASE t = "mcp__morph__read_file" -> "Read"
          [] t = "mcp__morph__list_directory" -> "LS"
          [] t = "mcp__morph__search_files" -> "Glob"
          [] OTHER -> "Write"]

\* self.tool_fallback_mapping, lines 94-100
tool_fallback_mapping ==
    [t \in {"mcp__morph__read_file", "mcp__morph__write_file",
            "mcp__morph__edit_file", "mcp__morph__list_directory",
            "mcp__morph__search_files"} |->
        CASE t = "mcp__morph__read_file" -> "Read"
          [] t = "mcp__morph__write_file" -> "Write"
          [] t = "mcp__morph__edit_file" -> "Edit"
          [] t = "mcp__morph__list_directory" -> "LS"
          [] OTHER -> "Glob"]

error_strategies_MemoryMissing ==
    [k \in ErrorTypes \ {"memory_error"} |->
        CASE k \in {"timeout", "file_lock", "network_error"}
               -> "retry_with_backoff"
          [] k = "tool_mapping_error" -> "alternative_tool"
          [] OTHER -> "native_tool"]

\* self.error_strategies, lines 103-113
error_strategies ==
    [k \in ErrorTypes |->
        CASE k \in {"timeout", "file_lock", "network_error"}
               -> "retry_with_backoff"
          [] k = "memory_error" -> "graceful_degradation"
          [] k = "tool_mapping_error" -> "alternative_tool"
          [] OTHER -> "native_tool"]

\* dict.get(key, default)
DictGet(d, k, default) == IF k \in DOMAIN d THEN d[k] ELSE default

\* d[key] = value
DictSet(d, k, v) == [x \in DOMAIN d \cup {k} |-> IF x = k THEN v ELSE d[x]]

\* d.pop(key, None)
DictPop(d, k) == [x \in DOMAIN d \ {k} |-> d[x]]

Min(a, b) == IF a <= b THEN a ELSE b
Max(a, b) == IF a >= b THEN a ELSE b

\* datetime.isoformat(): the text of a time
IsoFormat(t) == <<t>>

\* datetime.fromisoformat(): the time of a text
FromIsoFormat(text) == text[1]

NoneValue == << >>

\* load_fallback_stats, lines 450-457
default_stats(t) ==
    [total_errors |-> 0,
     error_types |-> EmptyDict,
     fallback_strategies |-> EmptyDict,
     circuit_breaker |-> EmptyDict,
     last_error |-> NoneValue,
     created |-> IsoFormat(t)]

\* what the stats file may hold besides a document written by
\* save_fallback_stats: text that json.load rejects, and JSON that is not
\* an object
InvalidJson == <<[json |-> "invalid"]>>
JsonList == <<[json |-> "list"]>>

\* stats is a dict
IsDict(stats) == "json" \notin DOMAIN stats

\* load_fallback_stats, lines 459-466: the document of the file, or the
\* default when there is no file or json.load raises
load_fallback_stats(file, t) ==
    IF file = << >> THEN default_stats(t)
    ELSE IF ~IsDict(file[1]) /\ file[1].json = "invalid"
    THEN default_stats(t)
    ELSE file[1]

\* save_fallback_stats, lines 471-473: the file after the save
save_fallback_stats(stats) == <<stats>>

is_circuit_breaker_open_AtThreshold(file, error_type, t) ==
    LET stats == load_fallback_stats(file, t)
        circuit_state == DictGet(stats.circuit_breaker, error_type, EmptyDict)
        failure_count == DictGet(circuit_state, "failure_count", 0)
        last_failure == DictGet(circuit_state, "last_failure", NoneValue)
    IN  /\ failure_count > circuit_breaker_failure_threshold
        /\ last_failure # NoneValue
        /\ t - FromIsoFormat(last_failure) < circuit_breaker_reset_timeout

\* is_circuit_breaker_open, lines 359-383; stats.get raises for what is
\* not a dict, which line 379 catches
is_circuit_breaker_open(file, error_type, t) ==
    IF ~ enable_circuit_breaker THEN FALSE
    ELSE IF ~IsDict(load_fallback_stats(file, t)) THEN FALSE
    ELSE
    LET stats == load_fallback_stats(file, t)
        circuit_state == DictGet(stats.circuit_breaker, error_type, EmptyDict)
        failure_count == DictGet(circuit_state, "failure_count", 0)
        last_failure == DictGet(circuit_state, "last_failure", NoneValue)
    IN  IF failure_count >= circuit_breaker_failure_threshold
        THEN IF last_failure # NoneValue
             THEN IF t - FromIsoFormat(last_failure)
                        < circuit_breaker_reset_timeout
                  THEN TRUE ELSE FALSE
             ELSE FALSE
        ELSE FALSE

RecordOutcome_CountRestarts(stats, error_type, is_failure, t) ==
    [stats EXCEPT !.circuit_breaker =
        DictSet(stats.circuit_breaker, error_type,
                IF is_failure
                THEN [failure_count |-> 1, last_failure |-> IsoFormat(t)]
                ELSE [failure_count |-> 0, last_failure |-> NoneValue])]

RecordOutcome_SuccessIgnored(stats, error_type, is_failure, t) ==
    LET cb == stats.circuit_breaker
        cb1 == IF error_type \notin DOMAIN cb
               THEN DictSet(cb, error_type,
                            [failure_count |-> 0, last_failure |-> NoneValue])
               ELSE cb
        circuit_state == cb1[error_type]
        updated ==
            IF is_failure
            THEN [failure_count |-> circuit_state.failure_count + 1,
                  last_failure |-> IsoFormat(t)]
            ELSE circuit_state
    IN  [stats EXCEPT !.circuit_breaker = DictSet(cb1, error_type, updated)]

RecordOutcome_RestartsWhenStale(stats, error_type, is_failure, t) ==
    LET cb == stats.circuit_breaker
        cb1 == IF error_type \notin DOMAIN cb
               THEN DictSet(cb, error_type,
                            [failure_count |-> 0, last_failure |-> NoneValue])
               ELSE cb
        circuit_state == cb1[error_type]
        stale == /\ circuit_state.last_failure # NoneValue
                 /\ t - FromIsoFormat(circuit_state.last_failure)
                       >= circuit_breaker_reset_timeout
        updated ==
            IF is_failure
            THEN [failure_count |->
                      IF stale THEN 1 ELSE circuit_state.failure_count + 1,
                  last_failure |-> IsoFormat(t)]
            ELSE [failure_count |-> 0, last_failure |-> NoneValue]
    IN  [stats EXCEPT !.circuit_breaker = DictSet(cb1, error_type, updated)]

RecordOutcome_CountsTwice(stats, error_type, is_failure, t) ==
    LET cb == stats.circuit_breaker
        cb1 == IF error_type \notin DOMAIN cb
               THEN DictSet(cb, error_type,
                            [failure_count |-> 0, last_failure |-> NoneValue])
               ELSE cb
        circuit_state == cb1[error_type]
        updated ==
            IF is_failure
            THEN [failure_count |-> circuit_state.failure_count + 2,
                  last_failure |-> IsoFormat(t)]
            ELSE [failure_count |-> 0, last_failure |-> NoneValue]
    IN  [stats EXCEPT !.circuit_breaker = DictSet(cb1, error_type, updated)]

RecordOutcome_CountsError(stats, error_type, is_failure, t) ==
    LET cb == stats.circuit_breaker
        cb1 == IF error_type \notin DOMAIN cb
               THEN DictSet(cb, error_type,
                            [failure_count |-> 0, last_failure |-> NoneValue])
               ELSE cb
        circuit_state == cb1[error_type]
        updated ==
            IF is_failure
            THEN [failure_count |-> circuit_state.failure_count + 1,
                  last_failure |-> IsoFormat(t)]
            ELSE [failure_count |-> 0, last_failure |-> NoneValue]
    IN  [stats EXCEPT !.circuit_breaker = DictSet(cb1, error_type, updated),
                      !.total_errors = IF is_failure THEN @ + 1 ELSE @]

\* update_circuit_breaker, lines 394-411: the document after the update
RecordOutcome(stats, error_type, is_failure, t) ==
    LET cb == stats.circuit_breaker
        cb1 == IF error_type \notin DOMAIN cb
               THEN DictSet(cb, error_type,
                            [failure_count |-> 0, last_failure |-> NoneValue])
               ELSE cb
        circuit_state == cb1[error_type]
        updated ==
            IF is_failure
            THEN [failure_count |-> circuit_state.failure_count + 1,
                  last_failure |-> IsoFormat(t)]
            ELSE [failure_count |-> 0, last_failure |-> NoneValue]
    IN  [stats EXCEPT !.circuit_breaker = DictSet(cb1, error_type, updated)]

\* update_circuit_breaker, lines 385-416: the file after the call; the
\* item assignment of line 395 raises for what is not a dict, which line
\* 415 catches
update_circuit_breaker(file, error_type, is_failure, t) ==
    IF ~ enable_circuit_breaker THEN file
    ELSE IF ~IsDict(load_fallback_stats(file, t)) THEN file
    ELSE save_fallback_stats(
             RecordOutcome(load_fallback_stats(file, t), error_type,
                           is_failure, t))

\* update_fallback_stats, lines 425-440: the document after the update
CountFallback(stats, error_type, strategy, t) ==
    [stats EXCEPT
        !.total_errors = stats.total_errors + 1,
        !.error_types =
            DictSet(stats.error_types, error_type,
                    DictGet(stats.error_types, error_type, 0) + 1),
        !.fallback_strategies =
            DictSet(stats.fallback_strategies, strategy,
                    DictGet(stats.fallback_strategies, strategy, 0) + 1),
        !.last_error = IsoFormat(t)]

\* update_fallback_stats, lines 418-445: the file after the call;
\* stats.get raises for what is not a dict, which line 444 catches
update_fallback_stats(file, error_type, strategy, t) ==
    IF ~IsDict(load_fallback_stats(file, t)) THEN file
    ELSE
    save_fallback_stats(
        CountFallback(load_fallback_stats(file, t), error_type, strategy, t))

\* an error_message that is not a str (None, a number), and a tool_input
\* that is None, written as a dict of its own so that it compares with the
\* dicts
NotAString == <<None>>
NoInput == [none |-> TRUE]

\* create_error_context, lines 153-166
create_error_context(tool_name, tool_input, error_message, t) ==
    [tool_name |-> tool_name,
     tool_input |-> tool_input,
     error_type |-> classify_error(error_message),
     error_message |-> error_message,
     timestamp |-> t,
     retry_count |-> 0,
     fallback_attempted |-> FALSE]

get_fallback_strategy_CapOffByOne(error_context, file, t) ==
    IF is_circuit_breaker_open(file, error_context.error_type, t)
    THEN "native_tool"
    ELSE LET strategy == DictGet(error_strategies, error_context.error_type,
                                 "native_tool")
         IN  IF /\ error_context.retry_count > max_retry_attempts
                /\ strategy = "retry_with_backoff"
             THEN "native_tool"
             ELSE strategy

get_fallback_strategy_RetryOnlyOverride(error_context, file, t) ==
    LET strategy == DictGet(error_strategies, error_context.error_type,
                            "native_tool")
    IN  IF /\ strategy = "retry_with_backoff"
           /\ \/ is_circuit_breaker_open(file, error_context.error_type, t)
              \/ error_context.retry_count >= max_retry_attempts
        THEN "native_tool"
        ELSE strategy

\* get_fallback_strategy, lines 190-205
get_fallback_strategy(error_context, file, t) ==
    IF is_circuit_breaker_open(file, error_context.error_type, t)
    THEN "native_tool"
    ELSE LET strategy == DictGet(error_strategies, error_context.error_type,
                                 "native_tool")
         IN  IF /\ error_context.retry_count >= max_retry_attempts
                /\ strategy = "retry_with_backoff"
             THEN "native_tool"
             ELSE strategy

(***************************************************************************)
(* The executors.  Each gives [response, records]: the response it         *)
(* returns and the strategies it passes to update_fallback_stats, in       *)
(* order.                                                                  *)
(***************************************************************************)
fallback_to_native_tool_AdaptedInput(error_context) ==
    [response |->
        [action |-> "fallback",
         fallback_tool |->
             DictGet(tool_fallback_mapping, error_context.tool_name, "Read"),
         fallback_input |->
             DictPop(DictPop(error_context.tool_input, "old_string"),
                     "new_string"),
         original_error |-> error_context.error_message],
     records |-> <<"native_tool">>]

\* fallback_to_native_tool, lines 232-248
fallback_to_native_tool(error_context) ==
    [response |->
        [action |-> "fallback",
         fallback_tool |->
             DictGet(tool_fallback_mapping, error_context.tool_name, "Read"),
         fallback_input |-> error_context.tool_input,
         original_error |-> error_context.error_message],
     records |-> <<"native_tool">>]

retry_with_backoff_DelayOffByOne(error_context) ==
    IF error_context.retry_count >= max_retry_attempts
    THEN fallback_to_native_tool(error_context)
    ELSE [response |->
             [action |-> "retry",
              retry_delay |->
                  retry_delay_seconds[
                      Min(error_context.retry_count + 1,
                          Len(retry_delay_seconds) - 1) + 1],
              retry_count |-> error_context.retry_count + 1,
              max_retries |-> max_retry_attempts],
          records |-> << >>]

\* retry_with_backoff, lines 250-266
retry_with_backoff(error_context) ==
    IF error_context.retry_count >= max_retry_attempts
    THEN fallback_to_native_tool(error_context)
    ELSE [response |->
             [action |-> "retry",
              retry_delay |->
                  retry_delay_seconds[
                      Min(error_context.retry_count,
                          Len(retry_delay_seconds) - 1) + 1],
              retry_count |-> error_context.retry_count + 1,
              max_retries |-> max_retry_attempts],
          records |-> << >>]

\* handle_batch_operation, lines 268-285
handle_batch_operation(error_context) ==
    IF /\ "edits" \in DOMAIN error_context.tool_input
       /\ Len(error_context.tool_input["edits"]) > 1
    THEN [response |->
             [action |-> "split_batch",
              batch_size |->
                  Max(1, Len(error_context.tool_input["edits"]) \div 2),
              original_batch_size |->
                  Len(error_context.tool_input["edits"])],
          records |-> << >>]
    ELSE fallback_to_native_tool(error_context)

\* adapt_input_for_alternative, lines 344-357
adapt_input_for_alternative(original_input, alternative_tool) ==
    IF alternative_tool = "mcp__morph__write_file"
    THEN DictPop(DictPop(original_input, "old_string"), "new_string")
    ELSE original_input

\* use_alternative_tool, lines 293-296
alternative_tools ==
    [t \in {"mcp__morph__edit_file", "mcp__morph__search_files"} |->
        IF t = "mcp__morph__edit_file" THEN "mcp__morph__write_file"
        ELSE "mcp__morph__list_directory"]

\* use_alternative_tool, lines 287-310
use_alternative_tool(error_context) ==
    IF /\ error_context.error_type = "tool_mapping_error"
       /\ error_context.tool_name \in DOMAIN alternative_tools
    THEN LET alternative == alternative_tools[error_context.tool_name] IN
         [response |->
             [action |-> "alternative",
              alternative_tool |-> alternative,
              alternative_input |->
                  adapt_input_for_alternative(error_context.tool_input,
                                              alternative)],
          records |-> << >>]
    ELSE fallback_to_native_tool(error_context)

\* the dict that modified_input names and the dict that tool_input names
\* after lines 318-322, when modified_input started as the dict given
inject_limit(tool_input, modified_input, aliased) ==
    LET Both(modified) ==
            [modified_input |-> modified,
             tool_input |-> IF aliased THEN modified ELSE tool_input]
    IN  Both(IF "limit" \notin DOMAIN modified_input
             THEN DictSet(modified_input, "limit", 1000)
             ELSE modified_input)

graceful_degradation_NoCopy(error_context) ==
    IF error_context.error_type = "memory_error"
    THEN LET Degraded(dicts) ==
                 [response |->
                     [action |-> "degrade",
                      degraded_input |-> dicts.modified_input,
                      degradation_type |-> "memory_optimization"],
                  records |-> << >>,
                  tool_input |-> dicts.tool_input]
         IN  Degraded(inject_limit(error_context.tool_input,
                                   error_context.tool_input, TRUE))
    ELSE fallback_to_native_tool(error_context)

\* graceful_degradation, lines 312-331; the injected limit is line 322, and
\* modified_input is tool_input.copy(), a dict of its own.  tool_input is
\* the context's input after the call.
graceful_degradation(error_context) ==
    IF error_context.error_type = "memory_error"
    THEN LET Degraded(dicts) ==
                 [response |->
                     [action |-> "degrade",
                      degraded_input |-> dicts.modified_input,
                      degradation_type |-> "memory_optimization"],
                  records |-> << >>,
                  tool_input |-> dicts.tool_input]
         IN  Degraded(inject_limit(error_context.tool_input,
                                   error_context.tool_input, FALSE))
    ELSE fallback_to_native_tool(error_context)

\* fail_fast, lines 333-342
fail_fast(error_context) ==
    [response |->
        [action |-> "fail",
         error |-> error_context.error_message,
         error_type |-> error_context.error_type],
     records |-> << >>]

\* execute_fallback_strategy, lines 207-230
execute_fallback_strategy(error_context, strategy) ==
    CASE strategy = "native_tool" -> fallback_to_native_tool(error_context)
      [] strategy = "retry_with_backoff" -> retry_with_backoff(error_context)
      [] strategy = "batch_operation" -> handle_batch_operation(error_context)
      [] strategy = "alternative_tool" -> use_alternative_tool(error_context)
      [] strategy = "graceful_degradation"
           -> graceful_degradation(error_context)
      [] strategy = "fail_fast" -> fail_fast(error_context)
      [] OTHER -> fallback_to_native_tool(error_context)

\* the file after the update_fallback_stats calls of an executor
RECURSIVE ApplyRecords(_, _, _, _)
ApplyRecords(file, error_type, records, t) ==
    IF records = << >> THEN file
    ELSE ApplyRecords(update_fallback_stats(file, error_type, Head(records), t),
                      error_type, Tail(records), t)

\* execute_fallback_strategy raises: tool_input.copy() of lines 318 and
\* 349 and the membership test of line 272 fail for an input that is None
ExecuteRaises(error_context, strategy) ==
    /\ error_context.tool_input = NoInput
    /\ \/ /\ strategy = "graceful_degradation"
          /\ error_context.error_type = "memory_error"
       \/ /\ strategy = "alternative_tool"
          /\ error_context.error_type = "tool_mapping_error"
          /\ error_context.tool_name \in DOMAIN alternative_tools
       \/ strategy = "batch_operation"

\* handle_error, lines 503-510
ultimate_fallback(tool_input) ==
    [action |-> "fallback",
     fallback_tool |-> "Read",
     fallback_input |-> tool_input,
     ultimate_fallback |-> TRUE]

handle_error_ContextOutsideTry(tool_name, tool_input, error_message, file, t) ==
    IF error_message = NotAString
    THEN [response |-> [action |-> "exception"], file |-> file]
    ELSE
    LET error_context ==
            create_error_context(tool_name, tool_input, error_message, t)
        strategy == get_fallback_strategy(error_context, file, t)
        executed == execute_fallback_strategy(error_context, strategy)
        counted == ApplyRecords(file, error_context.error_type,
                                executed.records, t)
    IN  IF ExecuteRaises(error_context, strategy)
        THEN [response |-> ultimate_fallback(tool_input), file |-> file]
        ELSE [response |-> executed.response,
              file |-> update_circuit_breaker(counted,
                                              error_context.error_type,
                                              TRUE, t)]

\* handle_error, lines 477-510: [response, file] after the call.
\* error_message.lower() (line 118) raises for a message that is not a str
\* and an executor may raise; line 499 catches both.
handle_error(tool_name, tool_input, error_message, file, t) ==
    IF error_message = NotAString
    THEN [response |-> ultimate_fallback(tool_input), file |-> file]
    ELSE
    LET error_context ==
            create_error_context(tool_name, tool_input, error_message, t)
        strategy == get_fallback_strategy(error_context, file, t)
        executed == execute_fallback_strategy(error_context, strategy)
        counted == ApplyRecords(file, error_context.error_type,
                                executed.records, t)
    IN  IF ExecuteRaises(error_context, strategy)
        THEN [response |-> ultimate_fallback(tool_input), file |-> file]
        ELSE [response |-> executed.response,
              file |-> update_circuit_breaker(counted,
                                              error_context.error_type,
                                              TRUE, t)]

(***************************************************************************)
(* The classifier on its own: a message comes in, classify_error answers.  *)
(***************************************************************************)
InitClassify ==
    /\ now = 0
    /\ CacheNew
    /\ max_size = 1
    /\ ThreadsIdle
    /\ MonitorNew
    /\ cl_msg \in Messages
    /\ cl_kind = None
    /\ HandlerNew
    /\ HookNew
    /\ InterceptorNew
    /\ UtilNew

Classify ==
    /\ cl_kind = None
    /\ cl_kind' = classify_error(cl_msg)
    /\ UNCHANGED cl_msg
    /\ UNCHANGED otherThanClassify

NextMessage(m) ==
    /\ cl_kind # None
    /\ cl_msg' = m
    /\ cl_kind' = None
    /\ UNCHANGED otherThanClassify

NextClassify ==
    \/ Classify
    \/ \E m \in Messages : NextMessage(m)

SpecClassify == InitClassify /\ [][NextClassify]_vars

\* C10: classify_error("Connection timed out") returns Timeout, not
\* ServerUnavailable.
C10_TimedOutIsTimeout ==
    (cl_msg = MsgConnectionTimedOut /\ cl_kind # None) => cl_kind = "timeout"

\* the keyword groups in the order the contract fixes
GroupOrder ==
    <<[kind |-> "server_unavailable", keywords |-> ConnectivityKeywords],
      [kind |-> "api_key_invalid", keywords |-> AuthKeywords],
      [kind |-> "timeout", keywords |-> TimeoutKeywords],
      [kind |-> "file_lock", keywords |-> FileLockKeywords],
      [kind |-> "permission_denied", keywords |-> PermissionKeywords],
      [kind |-> "memory_error", keywords |-> MemoryKeywords],
      [kind |-> "network_error", keywords |-> NetworkKeywords],
      [kind |-> "tool_mapping_error", keywords |-> ToolMappingKeywords]>>

\* group i has a keyword that is a substring of the lower-cased message
GroupMatches(i, msg) ==
    \E kw \in GroupOrder[i].keywords : Contains(ToLower(msg), kw)

\* C11: classify_error is a case-insensitive first match over the keyword
\* groups in the order connectivity, auth, timeout, file-lock, permission,
\* memory, network, tool-mapping: the result is the kind of the first group
\* with a keyword that is a substring of the lower-cased message, and
\* Unknown when no group matches, as for the empty message.
C11_FirstMatch ==
    cl_kind # None =>
        /\ \A i \in 1..Len(GroupOrder) :
              (GroupMatches(i, cl_msg)
                  /\ \A j \in 1..(i - 1) : ~GroupMatches(j, cl_msg))
                 => cl_kind = GroupOrder[i].kind
        /\ (\A i \in 1..Len(GroupOrder) : ~GroupMatches(i, cl_msg))
              => cl_kind = "unknown_error"
        /\ cl_msg = << >> => cl_kind = "unknown_error"

\* a message with capitals that matches two groups has been given the kind
\* of the earlier one
C11_Witness ==
    /\ cl_kind = "permission_denied"
    /\ GroupMatches(7, cl_msg)
    /\ cl_msg # ToLower(cl_msg)

(***************************************************************************)
(* One process after the other calls the handler: handle_error for a       *)
(* failed tool call, update_circuit_breaker for a success reported to it,  *)
(* and time passes in between.                                             *)
(***************************************************************************)
BreakerMessages == {MsgRequestTimeout, MsgConnectionRefused}
BreakerTool == "mcp__morph__edit_file"
BreakerInput == [file_path |-> "a.py"]

\* the kind each message of the specification stands for
MessageKind(msg) ==
    IF msg = MsgRequestTimeout THEN "timeout" ELSE "server_unavailable"

\* one more failure of kind k is on record
StreakGrows(k) ==
    /\ calls' = calls + 1
    /\ streak' = [streak EXCEPT ![k] = streak[k] + 1]
    /\ streak_since' = IF streak[k] = 0
                       THEN [streak_since EXCEPT ![k] = now]
                       ELSE streak_since

HandleError(msg) ==
    /\ calls < MaxCalls
    /\ LET r == handle_error(BreakerTool, BreakerInput, msg, stats_file, now) IN
        /\ stats_file' = r.file
        /\ response' = r.response
    /\ prev_file' = stats_file
    /\ last_op' = [op |-> "handle_error", kind |-> MessageKind(msg),
                   is_failure |-> TRUE]
    /\ StreakGrows(MessageKind(msg))
    /\ UNCHANGED <<now, history, proc>>
    /\ UNCHANGED otherThanHandler

\* update_circuit_breaker(kind, False)
RecordSuccess(k) ==
    /\ stats_file' = update_circuit_breaker(stats_file, k, FALSE, now)
    /\ prev_file' = stats_file
    /\ last_op' = [op |-> "record", kind |-> k, is_failure |-> FALSE]
    /\ streak' = [streak EXCEPT ![k] = 0]
    /\ streak_since' = [streak_since EXCEPT ![k] = 0]
    /\ UNCHANGED <<now, response, calls, history, proc>>
    /\ UNCHANGED otherThanHandler

BreakerTick ==
    /\ Tick
    /\ UNCHANGED handlerVars
    /\ UNCHANGED otherThanHandler

InitBreaker ==
    /\ now = 0
    /\ CacheNew
    /\ max_size = 1
    /\ ThreadsIdle
    /\ MonitorNew
    /\ ClassifyIdle
    /\ HookNew
    /\ InterceptorNew
    /\ UtilNew
    /\ HandlerNew

NextBreaker ==
    \/ \E msg \in BreakerMessages : HandleError(msg)
    \/ \E k \in BreakerKinds : RecordSuccess(k)
    \/ BreakerTick

SpecBreaker == InitBreaker /\ [][NextBreaker]_vars

\* what a stats file holds for kind k
PersistedCount(file, k) ==
    IF file # << >> /\ k \in DOMAIN file[1].circuit_breaker
    THEN file[1].circuit_breaker[k].failure_count ELSE 0

PersistedLast(file, k) ==
    IF file # << >> /\ k \in DOMAIN file[1].circuit_breaker
    THEN file[1].circuit_breaker[k].last_failure ELSE NoneValue

PersistedTotal(file) == IF file # << >> THEN file[1].total_errors ELSE 0

PersistedErrors(file, k) ==
    IF file # << >> /\ k \in DOMAIN file[1].error_types
    THEN file[1].error_types[k] ELSE 0

PersistedUses(file, strategy) ==
    IF file # << >> /\ strategy \in DOMAIN file[1].fallback_strategies
    THEN file[1].fallback_strategies[strategy] ELSE 0

\* C4: the circuit of an error kind is reported open exactly when the
\* persisted failure_count of the kind is at least the threshold (5) and
\* less than the reset timeout (300 s) has passed since its last_failure.
C4_OpenIff ==
    \A k \in ErrorTypes :
        is_circuit_breaker_open(stats_file, k, now)
            <=> /\ PersistedCount(stats_file, k)
                       >= circuit_breaker_failure_threshold
                /\ now - FromIsoFormat(PersistedLast(stats_file, k))
                       < circuit_breaker_reset_timeout

\* some time after the first failure a circuit is open
C4_Witness ==
    /\ \E k \in BreakerKinds : is_circuit_breaker_open(stats_file, k, now)
    /\ now > 0

\* C5: after threshold consecutive recorded failures of one kind within the
\* reset timeout the circuit of the kind is open; one recorded success then
\* sets failure_count to 0 and last_failure to none, and the circuit is
\* closed right after it.
C5_OpensThenResets ==
    \A k \in BreakerKinds :
        /\ (/\ streak[k] >= circuit_breaker_failure_threshold
            /\ now - streak_since[k] < circuit_breaker_reset_timeout)
              => is_circuit_breaker_open(stats_file, k, now)
        /\ (last_op = [op |-> "record", kind |-> k, is_failure |-> FALSE])
              => /\ PersistedCount(stats_file, k) = 0
                 /\ PersistedLast(stats_file, k) = NoneValue
                 /\ ~ is_circuit_breaker_open(stats_file, k, now)

\* a success has just been recorded for a kind whose circuit was open
C5_Witness ==
    /\ last_op.op = "record"
    /\ ~ last_op.is_failure
    /\ is_circuit_breaker_open(prev_file, last_op.kind, now)
    /\ ~ is_circuit_breaker_open(stats_file, last_op.kind, now)

\* the strategy that produced a response
ExecutedStrategy(r) ==
    CASE r.action = "fallback" -> "native_tool"
      [] r.action = "retry" -> "retry_with_backoff"
      [] r.action = "split_batch" -> "batch_operation"
      [] r.action = "alternative" -> "alternative_tool"
      [] r.action = "degrade" -> "graceful_degradation"
      [] OTHER -> "fail_fast"

\* C9: every handle_error call, whichever strategy it executed, adds one
\* failure to the circuit breaker of the classified kind and adds one to
\* the persisted total_errors, error_types[kind] and
\* fallback_strategies[executed strategy].
C9_EveryCallCounted ==
    last_op.op = "handle_error" =>
        LET k == last_op.kind
            st == ExecutedStrategy(response)
        IN  /\ PersistedCount(stats_file, k) = PersistedCount(prev_file, k) + 1
            /\ PersistedTotal(stats_file) = PersistedTotal(prev_file) + 1
            /\ PersistedErrors(stats_file, k) = PersistedErrors(prev_file, k) + 1
            /\ PersistedUses(stats_file, st) = PersistedUses(prev_file, st) + 1
(***************************************************************************)
(* One tool call that keeps failing with the same message: the caller      *)
(* hands every failure to handle_error and, told to retry, tries again     *)
(* after a while.  handle_error takes no retry count: the n-th attempt     *)
(* is the n-th entry of history.                                           *)
(***************************************************************************)
RetryMessages == {MsgRequestTimeout, MsgFileBusy, MsgDnsFailure}

RetryHorizon == MaxAttempts * circuit_breaker_reset_timeout

RetryAttempt(msg) ==
    /\ Len(history) < MaxAttempts
    /\ history # << >> => history[1].message = msg
    /\ LET r == handle_error(BreakerTool, BreakerInput, msg, stats_file, now) IN
        /\ stats_file' = r.file
        /\ response' = r.response
        /\ history' = Append(history, [message |-> msg, response |-> r.response])
    /\ prev_file' = stats_file
    /\ last_op' = [op |-> "attempt"]
    /\ UNCHANGED <<now, calls, streak, streak_since, proc>>
    /\ UNCHANGED otherThanHandler

\* the caller waits before the next attempt: a short while, or as long as
\* the reset timeout of the circuit breaker
RetryWait(d) ==
    /\ now + d <= RetryHorizon
    /\ now' = now + d
    /\ UNCHANGED handlerVars
    /\ UNCHANGED otherThanHandler

InitRetry == InitBreaker

NextRetry ==
    \/ \E msg \in RetryMessages : RetryAttempt(msg)
    \/ \E d \in {TickSeconds, circuit_breaker_reset_timeout} : RetryWait(d)

SpecRetry == InitRetry /\ [][NextRetry]_vars

\* C7: a tool call failing four times in a row with a Timeout message
\* (retry count 0, 1, 2, 3; max_retry_attempts = 3; circuit closed at the
\* start) gets action retry with delays 1, 2 and 4 for the first three
\* failures and action fallback for the fourth.
C7_BackoffThenFallback ==
    (Len(history) >= 4 /\ history[1].message = MsgRequestTimeout)
        => /\ \A i \in 1..3 :
                /\ history[i].response.action = "retry"
                /\ history[i].response.retry_delay = retry_delay_seconds[i]
           /\ history[4].response.action = "fallback"

\* C8: retries never go on forever: among the consecutive failures of one
\* retryable kind, as many as the run has (more than the retry cap and more
\* than the circuit breaker threshold), one gets an action other than retry.
C8_RetriesEnd ==
    Len(history) = MaxAttempts
        => \E i \in 1..Len(history) : history[i].response.action # "retry"
(***************************************************************************)
(* Two short-lived processes handle one failure each against the same      *)
(* stats file.  Every load and every save is a step of its own: a          *)
(* process reads the file in is_circuit_breaker_open, loads and saves it   *)
(* in update_fallback_stats (when it falls back to the native tool) and    *)
(* loads and saves it in update_circuit_breaker, with no lock.             *)
(***************************************************************************)
RaceMessages == {MsgRequestTimeout, MsgConnectionRefused}

\* the stats file after n failures of message msg handled one by one
RECURSIVE PriorFile(_, _)
PriorFile(n, msg) ==
    IF n = 0 THEN << >>
    ELSE handle_error(BreakerTool, BreakerInput, msg, PriorFile(n - 1, msg),
                      0).file

InitRace ==
    /\ now = 0
    /\ CacheNew
    /\ max_size = 1
    /\ ThreadsIdle
    /\ MonitorNew
    /\ ClassifyIdle
    /\ HookNew
    /\ InterceptorNew
    /\ UtilNew
    /\ stats_file \in {PriorFile(n, msg) : n \in 0..MaxPrior, msg \in RaceMessages}
    /\ prev_file = stats_file
    /\ response = [action |-> "none"]
    /\ last_op = [op |-> "none"]
    /\ calls = 0
    /\ streak = [k \in BreakerKinds |-> 0]
    /\ streak_since = [k \in BreakerKinds |-> 0]
    /\ history = << >>
    /\ proc = [p \in Procs |-> ProcIdle]

RaceFrame ==
    /\ UNCHANGED <<now, response, last_op, prev_file, calls, streak,
                   streak_since, history>>
    /\ UNCHANGED otherThanHandler

\* handle_error, lines 483-492: the context, the strategy (which reads the
\* file) and the response of the executor
RaceSelect(p, msg) ==
    /\ proc[p].pc = "idle"
    /\ LET error_context ==
               create_error_context(BreakerTool, BreakerInput, msg, now)
           strategy == get_fallback_strategy(error_context, stats_file, now)
           executed == execute_fallback_strategy(error_context, strategy)
       IN  proc' = [proc EXCEPT ![p] =
               [pc |-> IF executed.records # << >> THEN "stats_load"
                       ELSE "breaker_load",
                kind |-> error_context.error_type,
                response |-> executed.response,
                records |-> executed.records,
                stats |-> << >>,
                cb_read |-> 0]]
    /\ UNCHANGED stats_file
    /\ RaceFrame

\* update_fallback_stats, line 422
RaceStatsLoad(p) ==
    /\ proc[p].pc = "stats_load"
    /\ proc' = [proc EXCEPT ![p].stats = load_fallback_stats(stats_file, now),
                            ![p].pc = "stats_save"]
    /\ UNCHANGED stats_file
    /\ RaceFrame

\* update_fallback_stats, lines 425-442
RaceStatsSave(p) ==
    /\ proc[p].pc = "stats_save"
    /\ stats_file' = save_fallback_stats(
           CountFallback(proc[p].stats, proc[p].kind, Head(proc[p].records),
                         now))
    /\ proc' = [proc EXCEPT ![p].records = Tail(proc[p].records),
                            ![p].pc = IF Tail(proc[p].records) # << >>
                                      THEN "stats_load" ELSE "breaker_load"]
    /\ RaceFrame

\* update_circuit_breaker, line 392
RaceBreakerLoad(p) ==
    /\ proc[p].pc = "breaker_load"
    /\ proc' = [proc EXCEPT
           ![p].stats = load_fallback_stats(stats_file, now),
           ![p].cb_read =
               LET cb == load_fallback_stats(stats_file, now).circuit_breaker
               IN  IF proc[p].kind \in DOMAIN cb
                   THEN cb[proc[p].kind].failure_count ELSE 0,
           ![p].pc = "breaker_save"]
    /\ UNCHANGED stats_file
    /\ RaceFrame

\* update_circuit_breaker, lines 394-413, and the return of handle_error
RaceBreakerSave(p) ==
    /\ proc[p].pc = "breaker_save"
    /\ stats_file' = save_fallback_stats(
           RecordOutcome(proc[p].stats, proc[p].kind, TRUE, now))
    /\ proc' = [proc EXCEPT ![p].pc = "done"]
    /\ RaceFrame

NextRace ==
    \E p \in Procs :
        \/ \E msg \in RaceMessages : RaceSelect(p, msg)
        \/ RaceStatsLoad(p)
        \/ RaceStatsSave(p)
        \/ RaceBreakerLoad(p)
        \/ RaceBreakerSave(p)

SpecRace == InitRace /\ [][NextRace]_vars

\* both processes have returned from handle_error, for the same error kind
RaceOver ==
    /\ \A p \in Procs : proc[p].pc = "done"
    /\ proc["p1"].kind = proc["p2"].kind

\* C6: two processes that interleave load -> increment -> save for the same
\* error kind can lose an update: when both have read the same
\* failure_count (4, say) both write that count plus one (5), and the count
\* has grown by 1 for two recorded failures; it grows by 2 only when one
\* has read what the other has written.
C6_LostUpdate ==
    RaceOver =>
        LET k == proc["p1"].kind
            before == PersistedCount(prev_file, k)
            after == PersistedCount(stats_file, k)
        IN  /\ after \in {before + 1, before + 2}
            /\ (proc["p1"].cb_read = proc["p2"].cb_read)
                  <=> after = before + 1
            /\ (proc["p1"].cb_read = proc["p2"].cb_read)
                  => after = proc["p1"].cb_read + 1

\* both processes have read failure_count = 4 and both have written 5
C6_Witness ==
    /\ RaceOver
    /\ proc["p1"].cb_read = 4
    /\ proc["p2"].cb_read = 4
    /\ PersistedCount(prev_file, proc["p1"].kind) = 4
    /\ PersistedCount(stats_file, proc["p1"].kind) = 5
(***************************************************************************)
(* Selection and execution on their own: get_fallback_strategy is given    *)
(* an error context (any tool, input, message and retry count) against a   *)
(* stats file that earlier failures have left, and                         *)
(* execute_fallback_strategy is then given that context and a strategy.    *)
(***************************************************************************)
\* one or two messages of every kind
KindMessages ==
    {MsgConnectionRefused, MsgApiKey, MsgRequestTimeout, MsgTimedOut,
     MsgFileBusy, MsgPermission, MsgOutOfMemory, MsgDnsFailure,
     MsgInvalidTool, MsgTestError}

SelectTools == DOMAIN tool_fallback_mapping \cup {"mcp__morph__other"}

SelectInputs ==
    {[file_path |-> "a.py"],
     [file_path |-> "a.py", old_string |-> "x", new_string |-> "y"]}

InitSelect ==
    /\ now \in {0, circuit_breaker_reset_timeout}
    /\ CacheNew
    /\ max_size = 1
    /\ ThreadsIdle
    /\ MonitorNew
    /\ ClassifyIdle
    /\ HookNew
    /\ InterceptorNew
    /\ UtilNew
    /\ stats_file \in
           {PriorFile(n, msg) :
               n \in {0, MaxPrior, MaxPrior + 1}, msg \in KindMessages}
    /\ prev_file = stats_file
    /\ response = [action |-> "none"]
    /\ last_op = [op |-> "none"]
    /\ calls = 0
    /\ streak = [k \in BreakerKinds |-> 0]
    /\ streak_since = [k \in BreakerKinds |-> 0]
    /\ history = << >>
    /\ proc = [p \in Procs |-> ProcIdle]

\* get_fallback_strategy(error_context), the context made by
\* create_error_context and given the retry count rc (ErrorContext, line 61)
SelectStrategy(tool_name, tool_input, msg, rc) ==
    /\ last_op.op = "none"
    /\ LET error_context ==
               [create_error_context(tool_name, tool_input, msg, now)
                   EXCEPT !.retry_count = rc]
       IN  last_op' =
               [op |-> "select",
                ctx |-> error_context,
                strategy |->
                    get_fallback_strategy(error_context, stats_file, now),
                executed |-> "none"]
    /\ UNCHANGED <<now, stats_file, response, prev_file, calls, streak,
                   streak_since, history, proc>>
    /\ UNCHANGED otherThanHandler

\* execute_fallback_strategy(error_context, strategy)
ExecuteStrategy(strategy) ==
    /\ last_op.op = "select"
    /\ LET executed == execute_fallback_strategy(last_op.ctx, strategy) IN
        /\ response' = executed.response
        /\ stats_file' = ApplyRecords(stats_file, last_op.ctx.error_type,
                                      executed.records, now)
    /\ prev_file' = stats_file
    /\ last_op' =
           [op |-> "execute", ctx |-> last_op.ctx,
            strategy |-> last_op.strategy, executed |-> strategy,
            input_after |->
                DictGet(execute_fallback_strategy(last_op.ctx, strategy),
                        "tool_input", last_op.ctx.tool_input)]
    /\ calls' = calls + 1
    /\ UNCHANGED <<now, streak, streak_since, history, proc>>
    /\ UNCHANGED otherThanHandler

\* handle_error(tool_name, tool_input, error_message, {}); the context it
\* made and the strategy it selected are kept beside its response
HandleFailure(tool_name, tool_input, msg) ==
    /\ last_op.op = "none"
    /\ LET r == handle_error(tool_name, tool_input, msg, stats_file, now)
           error_context ==
               create_error_context(tool_name, tool_input, msg, now)
           strategy == get_fallback_strategy(error_context, stats_file, now)
       IN  /\ response' = r.response
           /\ stats_file' = r.file
           /\ last_op' = [op |-> "handle_error", ctx |-> error_context,
                          strategy |-> strategy, executed |-> strategy]
    /\ prev_file' = stats_file
    /\ calls' = calls + 1
    /\ UNCHANGED <<now, streak, streak_since, history, proc>>
    /\ UNCHANGED otherThanHandler

NextSelect ==
    \/ \E tool_name \in SelectTools, tool_input \in SelectInputs,
          msg \in KindMessages, rc \in 0..MaxRetryCount :
           SelectStrategy(tool_name, tool_input, msg, rc)
    \/ \E strategy \in Strategies : ExecuteStrategy(strategy)
    \/ \E tool_name \in SelectTools, tool_input \in SelectInputs,
          msg \in KindMessages : HandleFailure(tool_name, tool_input, msg)

SpecSelect == InitSelect /\ [][NextSelect]_vars

\* get_fallback_strategy has answered (the stats file it read is prev_file
\* after the execution and stats_file before)
Selected == last_op.op \in {"select", "execute", "handle_error"}

\* the circuit of kind k as the stats file the selection read records it
SelectCircuitOpen ==
    LET file == IF last_op.op = "select" THEN stats_file ELSE prev_file
        k == last_op.ctx.error_type
    IN  /\ PersistedCount(file, k) >= circuit_breaker_failure_threshold
        /\ PersistedLast(file, k) # NoneValue
        /\ now - FromIsoFormat(PersistedLast(file, k))
               < circuit_breaker_reset_timeout

\* C12: whenever the circuit for the error kind of a failure is open,
\* get_fallback_strategy returns NativeTool, for every error kind and every
\* retry count, whatever the strategy table holds for the kind.
C12_OpenForcesNative ==
    (Selected /\ SelectCircuitOpen) => last_op.strategy = "native_tool"

\* the circuit is open for a memory error, whose table entry is graceful
\* degradation, and the native tool has been selected
C12_Witness ==
    /\ Selected
    /\ SelectCircuitOpen
    /\ last_op.ctx.error_type = "memory_error"
    /\ last_op.ctx.retry_count = 0
    /\ last_op.strategy = "native_tool"
\* C13: with the circuit closed, for every kind whose table strategy is
\* RetryWithBackoff (Timeout, FileLock, NetworkError) get_fallback_strategy
\* returns RetryWithBackoff when retry_count < max_retry_attempts (3) and
\* NativeTool when retry_count >= max_retry_attempts; Timeout with
\* retry_count = 3 selects NativeTool.
C13_RetryCap ==
    (/\ Selected
     /\ ~SelectCircuitOpen
     /\ last_op.ctx.error_type \in {"timeout", "file_lock", "network_error"})
        => last_op.strategy =
               IF last_op.ctx.retry_count < 3 THEN "retry_with_backoff"
               ELSE "native_tool"

\* Timeout with retry_count = max_retry_attempts and the circuit closed has
\* selected the native tool
C13_Witness ==
    /\ Selected
    /\ ~SelectCircuitOpen
    /\ last_op.ctx.error_type = "timeout"
    /\ last_op.ctx.retry_count = max_retry_attempts
    /\ last_op.strategy = "native_tool"

\* the strategy table as the contract words it
ContractTable(k) ==
    CASE k \in {"server_unavailable", "api_key_invalid", "permission_denied",
                "unknown_error"} -> "native_tool"
      [] k \in {"timeout", "file_lock", "network_error"}
           -> "retry_with_backoff"
      [] k = "memory_error" -> "graceful_degradation"
      [] k = "tool_mapping_error" -> "alternative_tool"

\* the selection as a function of (error kind, retry count, circuit open)
ContractSelection(k, rc, open) ==
    IF open THEN "native_tool"
    ELSE IF ContractTable(k) = "retry_with_backoff" /\ rc >= 3
    THEN "native_tool"
    ELSE ContractTable(k)

\* C14: strategy selection is a pure function of (error kind, retry count,
\* circuit-open flag): with the circuit closed and retry_count below the cap
\* it is the table entry of the kind, and whatever the tool name, the tool
\* input and the message text it is the value that function gives.
C14_PureSelection ==
    Selected =>
        /\ last_op.strategy =
               ContractSelection(last_op.ctx.error_type,
                                 last_op.ctx.retry_count, SelectCircuitOpen)
        /\ (~SelectCircuitOpen /\ last_op.ctx.retry_count < 3)
              => last_op.strategy = ContractTable(last_op.ctx.error_type)

\* a memory error with the circuit closed has selected graceful
\* degradation, for a tool outside the fallback table
C14_Witness ==
    /\ Selected
    /\ ~SelectCircuitOpen
    /\ last_op.ctx.error_type = "memory_error"
    /\ last_op.ctx.tool_name = "mcp__morph__other"
    /\ last_op.ctx.retry_count = 2
    /\ last_op.strategy = "graceful_degradation"
\* execute_fallback_strategy has answered for the strategy it was given
Executed(strategy) == last_op.op = "execute" /\ last_op.executed = strategy

\* C18: executing RetryWithBackoff with retry_count r < max_retry_attempts
\* returns action retry with the delay backoffTable[min(r, len - 1)] of the
\* table [1, 2, 4] and the next retry count r + 1; so every retry
\* descriptor returned has a retry count in 1..max_retry_attempts, and the
\* delay does not decrease as r grows.
C18_BackoffDescriptor ==
    /\ (Executed("retry_with_backoff")
        /\ last_op.ctx.retry_count < max_retry_attempts)
          => /\ response.action = "retry"
             /\ response.retry_delay =
                    <<1, 2, 4>>[Min(last_op.ctx.retry_count, 2) + 1]
             /\ response.retry_count = last_op.ctx.retry_count + 1
    /\ response.action = "retry"
          => /\ response.retry_count \in 1..max_retry_attempts
             /\ \A r \in 0..last_op.ctx.retry_count :
                    <<1, 2, 4>>[Min(r, 2) + 1] <= response.retry_delay

\* a retry with retry_count 2 has been answered with delay 4 and count 3
C18_Witness ==
    /\ Executed("retry_with_backoff")
    /\ last_op.ctx.retry_count = 2
    /\ response.action = "retry"
    /\ response.retry_delay = 4
    /\ response.retry_count = 3

\* C16: tool Edit (the capability service's edit tool) failing with
\* "connection refused", retry count 0 and circuit closed, is classified
\* ServerUnavailable, gets strategy NativeTool, and handle_error returns
\* action fallback whose fallback tool is the native Edit and whose
\* fallback input is the original input.
C16_EditFallsBack ==
    (/\ last_op.op = "handle_error"
     /\ last_op.ctx.tool_name = "mcp__morph__edit_file"
     /\ last_op.ctx.error_message = MsgConnectionRefused
     /\ last_op.ctx.retry_count = 0
     /\ ~SelectCircuitOpen)
        => /\ last_op.ctx.error_type = "server_unavailable"
           /\ last_op.strategy = "native_tool"
           /\ response.action = "fallback"
           /\ response.fallback_tool = "Edit"
           /\ response.fallback_input = last_op.ctx.tool_input

\* handle_error has answered that scenario for an edit input
C16_Witness ==
    /\ last_op.op = "handle_error"
    /\ last_op.ctx.tool_name = "mcp__morph__edit_file"
    /\ last_op.ctx.error_message = MsgConnectionRefused
    /\ ~SelectCircuitOpen
    /\ "old_string" \in DOMAIN last_op.ctx.tool_input
    /\ response.action = "fallback"
    /\ response.fallback_tool = "Edit"

\* the native equivalents of the capability service's tools
NativeEquivalent(t) ==
    CASE t = "mcp__morph__read_file" -> "Read"
      [] t = "mcp__morph__write_file" -> "Write"
      [] t = "mcp__morph__edit_file" -> "Edit"
      [] t = "mcp__morph__list_directory" -> "LS"
      [] t = "mcp__morph__search_files" -> "Glob"

\* C17: executing NativeTool for a failing capability-service tool of the
\* fallback table returns action fallback with the table's native
\* equivalent (read_file -> Read, write_file -> Write, edit_file -> Edit,
\* list_directory -> LS, search_files -> Glob) and the original tool input
\* as fallback_input; an unclassifiable error on such a tool handled by
\* handle_error yields action fallback.
C17_NativeEquivalent ==
    /\ (Executed("native_tool")
        /\ last_op.ctx.tool_name \in DOMAIN tool_fallback_mapping)
          => /\ response.action = "fallback"
             /\ response.fallback_tool =
                    NativeEquivalent(last_op.ctx.tool_name)
             /\ response.fallback_input = last_op.ctx.tool_input
    /\ (/\ last_op.op = "handle_error"
        /\ last_op.ctx.error_type = "unknown_error"
        /\ last_op.ctx.tool_name \in DOMAIN tool_fallback_mapping)
          => response.action = "fallback"

\* the native tool has been executed for search_files with an edit input
C17_Witness ==
    /\ Executed("native_tool")
    /\ last_op.ctx.tool_name = "mcp__morph__search_files"
    /\ "new_string" \in DOMAIN last_op.ctx.tool_input
    /\ response.fallback_tool = "Glob"
    /\ response.fallback_input = last_op.ctx.tool_input
(***************************************************************************)
(* handle_error against inputs and stats files of any content: a message   *)
(* that is not a string, an input that is None, a stats file that is not   *)
(* JSON or not a JSON object (main, lines 521-526, passes on whatever the  *)
(* JSON of its argument holds).                                            *)
(***************************************************************************)
GuardTools == {"mcp__morph__edit_file", "mcp__morph__other"}
GuardInputs == {[file_path |-> "a.py"], NoInput}
GuardMessages ==
    {NotAString, MsgOutOfMemory, MsgInvalidTool, MsgRequestTimeout,
     MsgConnectionRefused}

InitGuard ==
    /\ now = 0
    /\ CacheNew
    /\ max_size = 1
    /\ ThreadsIdle
    /\ MonitorNew
    /\ ClassifyIdle
    /\ HookNew
    /\ InterceptorNew
    /\ UtilNew
    /\ stats_file \in {<< >>, InvalidJson, JsonList,
                       PriorFile(MaxPrior + 1, MsgOutOfMemory)}
    /\ prev_file = stats_file
    /\ response = [action |-> "none"]
    /\ last_op = [op |-> "none"]
    /\ calls = 0
    /\ streak = [k \in BreakerKinds |-> 0]
    /\ streak_since = [k \in BreakerKinds |-> 0]
    /\ history = << >>
    /\ proc = [p \in Procs |-> ProcIdle]

GuardHandle(tool_name, tool_input, msg) ==
    /\ calls < MaxGuardCalls
    /\ LET r == handle_error(tool_name, tool_input, msg, stats_file, now) IN
        /\ response' = r.response
        /\ stats_file' = r.file
    /\ prev_file' = stats_file
    /\ last_op' = [op |-> "handle_error", tool_name |-> tool_name,
                   tool_input |-> tool_input, error_message |-> msg]
    /\ calls' = calls + 1
    /\ UNCHANGED <<now, streak, streak_since, history, proc>>
    /\ UNCHANGED otherThanHandler

NextGuard ==
    \E tool_name \in GuardTools, tool_input \in GuardInputs,
       msg \in GuardMessages : GuardHandle(tool_name, tool_input, msg)

SpecGuard == InitGuard /\ [][NextGuard]_vars

\* the actions a caller can act on
Decisions ==
    {"fallback", "retry", "split_batch", "alternative", "degrade", "fail"}

\* the ultimate fallback for the input of the last call
IsUltimate ==
    /\ response.action = "fallback"
    /\ response.fallback_tool = "Read"
    /\ "ultimate_fallback" \in DOMAIN response
    /\ response.ultimate_fallback = TRUE
    /\ response.fallback_input = last_op.tool_input

\* the message of the last call is not a string: create-context fails
CreateFailed == last_op.error_message = NotAString

\* the circuit of the last call's kind was open in the file it read
GuardCircuitOpen ==
    /\ prev_file # << >>
    /\ IsDict(prev_file[1])
    /\ PersistedCount(prev_file, classify_error(last_op.error_message))
           >= circuit_breaker_failure_threshold
    /\ now - FromIsoFormat(
                 PersistedLast(prev_file,
                               classify_error(last_op.error_message)))
           < circuit_breaker_reset_timeout

\* the input of the last call is None and the executor of its kind copies
\* the input: execute fails
ExecuteFailed ==
    /\ ~CreateFailed
    /\ last_op.tool_input = NoInput
    /\ ~GuardCircuitOpen
    /\ \/ last_op.error_message = MsgOutOfMemory
       \/ /\ last_op.error_message = MsgInvalidTool
          /\ last_op.tool_name = "mcp__morph__edit_file"

\* the stats file the last call found holds no JSON object, so that
\* update_circuit_breaker cannot record the failure: the record step fails
RecordFailed ==
    /\ ~CreateFailed
    /\ ~ExecuteFailed
    /\ prev_file = JsonList

\* C15: handle_error never raises, whatever the tool name, the tool input,
\* the error message and the content or absence of the stats file; and
\* whenever any internal step of create-context/select/execute/record
\* fails, it returns the ultimate fallback {action: fallback,
\* fallback_tool: Read, ultimate_fallback: true} with the original input.
C15_AnyFailureIsUltimate ==
    last_op.op = "handle_error" =>
        /\ response.action \in Decisions
        /\ (CreateFailed \/ ExecuteFailed \/ RecordFailed) => IsUltimate

\* C15 as amended: handle_error never raises; whenever create-context or
\* execute fails it returns the ultimate fallback with the original input;
\* a stats file that cannot be read or updated is handled inside the
\* select and record steps, and the response is then that of the executed
\* strategy, not the ultimate fallback.
C15_GuardedFallback ==
    last_op.op = "handle_error" =>
        /\ response.action \in Decisions
        /\ (CreateFailed \/ ExecuteFailed) <=> IsUltimate
        /\ (CreateFailed \/ ExecuteFailed) => stats_file = prev_file
        /\ RecordFailed => stats_file = prev_file

\* a memory error with input None and a stats file that is not an object
\* has been answered with the ultimate fallback, and a timeout against
\* that file with a retry
C15_Witness ==
    /\ last_op.op = "handle_error"
    /\ calls = 2
    /\ ExecuteFailed
    /\ last_op.error_message = MsgOutOfMemory
    /\ prev_file = JsonList
    /\ IsUltimate

(***************************************************************************)
(* PreToolUseHook (pre_tool_use.py) with the decorators and the cache      *)
(* policy it takes from performance_optimizer.py:164-228, 275-279.  A      *)
(* tool name is a string; Chars gives its characters where the code looks  *)
(* inside it (startswith, in, split).  The persona and the complexity of   *)
(* extract_context are functions of the tool and its arguments, and the    *)
(* md5 fingerprint of generate_cache_key is taken to be free of            *)
(* collisions, so a cache key is the tuple of what is hashed.              *)
(***************************************************************************)
HookTools ==
    {"Read", "Write", "Edit", "MultiEdit", "Grep", "Glob", "Task",
     "TodoWrite", "Bash", "LS", "WebSearch", "WebFetch", "NotebookEdit",
     "Analyze", "TaskOutput", "mcp__magic__build",
     "mcp__sequential-thinking__think", "mcp_tool", ""}

\* the characters of the names and literals the hook works on
Chars(s) ==
    CASE s = "Read" -> <<"R", "e", "a", "d">>
      [] s = "Write" -> <<"W", "r", "i", "t", "e">>
      [] s = "Edit" -> <<"E", "d", "i", "t">>
      [] s = "MultiEdit" -> <<"M", "u", "l", "t", "i", "E", "d", "i", "t">>
      [] s = "Grep" -> <<"G", "r", "e", "p">>
      [] s = "Glob" -> <<"G", "l", "o", "b">>
      [] s = "Task" -> <<"T", "a", "s", "k">>
      [] s = "TodoWrite" -> <<"T", "o", "d", "o", "W", "r", "i", "t", "e">>
      [] s = "Bash" -> <<"B", "a", "s", "h">>
      [] s = "LS" -> <<"L", "S">>
      [] s = "WebSearch" -> <<"W", "e", "b", "S", "e", "a", "r", "c", "h">>
      [] s = "WebFetch" -> <<"W", "e", "b", "F", "e", "t", "c", "h">>
      [] s = "NotebookEdit" -> <<"N", "o", "t", "e", "b", "o", "o", "k", "E", "d", "i", "t">>
      [] s = "Analyze" -> <<"A", "n", "a", "l", "y", "z", "e">>
      [] s = "TaskOutput" -> <<"T", "a", "s", "k", "O", "u", "t", "p", "u", "t">>
      [] s = "mcp__magic__build" -> <<"m", "c", "p", "_", "_", "m", "a", "g", "i", "c", "_", "_", "b", "u", "i", "l", "d">>
      [] s = "mcp__sequential-thinking__think" -> <<"m", "c", "p", "_", "_", "s", "e", "q", "u", "e", "n", "t", "i", "a", "l", "-", "t", "h", "i", "n", "k", "i", "n", "g", "_", "_", "t", "h", "i", "n", "k">>
      [] s = "mcp_tool" -> <<"m", "c", "p", "_", "t", "o", "o", "l">>
      [] s = "" -> << >>
      [] s = "mcp__" -> <<"m", "c", "p", "_", "_">>
      [] s = "__" -> <<"_", "_">>
      [] s = "mcp__sequential" -> <<"m", "c", "p", "_", "_", "s", "e", "q", "u", "e", "n", "t", "i", "a", "l">>
      [] s = "mcp__context7" -> <<"m", "c", "p", "_", "_", "c", "o", "n", "t", "e", "x", "t", "7">>
      [] s = "mcp__magic" -> <<"m", "c", "p", "_", "_", "m", "a", "g", "i", "c">>
      [] s = "mcp__playwright" -> <<"m", "c", "p", "_", "_", "p", "l", "a", "y", "w", "r", "i", "g", "h", "t">>
      [] s = "sequential-thinking" -> <<"s", "e", "q", "u", "e", "n", "t", "i", "a", "l", "-", "t", "h", "i", "n", "k", "i", "n", "g">>
      [] s = "context7" -> <<"c", "o", "n", "t", "e", "x", "t", "7">>
      [] s = "magic" -> <<"m", "a", "g", "i", "c">>
      [] s = "playwright" -> <<"p", "l", "a", "y", "w", "r", "i", "g", "h", "t">>

\* text.startswith(prefix)
StartsWith(text, prefix) ==
    Len(text) >= Len(prefix) /\ SubSeq(text, 1, Len(prefix)) = prefix

determine_processing_level_NoStandard(enable_selective_activation, tool_name) ==
    IF ~enable_selective_activation THEN "full"
    ELSE IF StartsWith(Chars(tool_name), Chars("mcp__")) THEN "high"
    ELSE IF tool_name \in {"Read", "Write", "Edit", "MultiEdit", "Grep", "Glob"}
         THEN "medium"
    ELSE IF tool_name \in {"Task", "TodoWrite", "Bash"} THEN "medium"
    ELSE IF tool_name \in {"LS", "WebSearch", "WebFetch"} THEN "minimal"
    ELSE "full"

\* determine_processing_level, lines 57-76
determine_processing_level(enable_selective_activation, tool_name) ==
    IF ~enable_selective_activation THEN "full"
    ELSE IF StartsWith(Chars(tool_name), Chars("mcp__")) THEN "high"
    ELSE IF tool_name \in {"Read", "Write", "Edit", "MultiEdit", "Grep", "Glob"}
         THEN "medium"
    ELSE IF tool_name \in {"Task", "TodoWrite", "Bash"} THEN "medium"
    ELSE IF tool_name \in {"LS", "WebSearch", "WebFetch"} THEN "minimal"
    ELSE "standard"

\* line 96
mcp_beneficial_tools ==
    {"mcp__sequential", "mcp__context7", "mcp__magic", "mcp__playwright",
     "Task", "TodoWrite", "MultiEdit"}

\* needs_mcp_analysis, lines 93-101
needs_mcp_analysis(tool_name) ==
    \E tool \in mcp_beneficial_tools : Contains(Chars(tool_name), Chars(tool))

should_skip_bridge_routing_AnyMinimal(enable_smart_routing, tool_name, processing_level) ==
    IF ~enable_smart_routing THEN FALSE
    ELSE IF processing_level = "minimal" THEN TRUE
    ELSE IF processing_level = "medium" /\ tool_name \in {"Read", "Grep", "Glob"}
            /\ ~needs_mcp_analysis(tool_name)
         THEN TRUE
    ELSE FALSE

\* should_skip_bridge_routing, lines 78-91
should_skip_bridge_routing(enable_smart_routing, tool_name, processing_level) ==
    IF ~enable_smart_routing THEN FALSE
    ELSE IF processing_level = "minimal" /\ tool_name \in {"LS"} THEN TRUE
    ELSE IF processing_level = "medium" /\ tool_name \in {"Read", "Grep", "Glob"}
            /\ ~needs_mcp_analysis(tool_name)
         THEN TRUE
    ELSE FALSE

\* OPTIMIZATION_CONFIG["enable_caching"], performance_optimizer.py:266
enable_caching == TRUE

\* should_use_cache, performance_optimizer.py:275-279
should_use_cache(operation) ==
    enable_caching /\ operation \notin {"Write", "Edit", "MultiEdit", "TodoWrite"}

\* the arguments of a tool call, and {} for a call without arguments
HookArgs == {[file_path |-> "a.py"], [file_path |-> "b.py"]}

\* the cache, the monitor and the requests sent to the bridge, as one value
World ==
    [cache |-> cache, hits |-> hits, misses |-> misses, metrics |-> metrics,
     requests |-> bridge_requests]

\* cache.get(key) at time t: the world after it, the value, and whether the
\* key was found unexpired
WorldGet(w, key, t) ==
    LET Got(r) ==
            [w |-> [w EXCEPT !.cache = r.cache, !.hits = r.hits,
                             !.misses = r.misses],
             ret |-> r.ret, hit |-> r.hits > w.hits]
    IN  Got(LRUGet(w.cache, w.hits, w.misses, key, t))

\* cache.set(key, value)
WorldSet(w, key, value, t, ms) ==
    [w EXCEPT !.cache = LRUSet(w.cache, key, value, t, ms)]

\* monitor.record_timing(operation, d)
WorldTime(w, operation, d) ==
    [w EXCEPT !.metrics = RecordTiming(w.metrics, operation, d)]

\* routing_map.get(tool_name), performance_optimizer.py:219-226
routing_map_get(tool_name) ==
    CASE tool_name = "Analyze" -> "sequential"
      [] tool_name = "Build" -> "magic"
      [] tool_name = "Test" -> "playwright"
      [] OTHER -> None

\* optimize_mcp_routing, performance_optimizer.py:211-228: _route under
\* cached_operation (outside) and timed_operation (inside)
optimize_mcp_routing(w, tool_name, tool_args, d, t, ms) ==
    LET cache_key == <<"routing", tool_name, tool_args>>
        result == routing_map_get(tool_name)
        Cached(g) ==
            IF g.ret # None THEN [w |-> g.w, ret |-> g.ret]
            ELSE [w |-> WorldSet(WorldTime(g.w, "mcp_routing", d), cache_key,
                                 result, t, ms),
                  ret |-> result]
    IN  Cached(WorldGet(w, cache_key, t))

\* parts[1] of tool_name.split('__'), for a name that starts with mcp__
ServerOf(text) ==
    LET rest == SubSeq(text, 6, Len(text))
        ends == {i \in 1..(Len(rest) - 1) : rest[i] = "_" /\ rest[i + 1] = "_"}
        stop == IF ends = {} THEN Len(rest) + 1
                ELSE CHOOSE i \in ends : \A j \in ends : i <= j
    IN  SubSeq(rest, 1, stop - 1)

\* tool_routes.get(tool_name, 'superclaude-orchestrator'), lines 254-282
tool_routes_get(tool_name) ==
    CASE tool_name \in {"Read", "Write", "Edit", "MultiEdit", "Grep", "Glob"}
            -> "superclaude-code"
      [] tool_name = "Bash" -> "superclaude-orchestrator"
      [] tool_name \in {"Task", "TodoWrite"} -> "superclaude-tasks"
      [] tool_name \in {"WebSearch", "WebFetch"} -> "superclaude-intelligence"
      [] OTHER -> "superclaude-orchestrator"

\* select_fallback_route without its decorator, lines 250-282, given what
\* optimize_mcp_routing returned
fallback_route(tool_name, optimized_route) ==
    IF optimized_route # None THEN optimized_route
    ELSE IF StartsWith(Chars(tool_name), Chars("mcp__"))
         THEN LET server == ServerOf(Chars(tool_name)) IN
              CASE server = Chars("sequential-thinking") -> "sequential"
                [] server = Chars("context7") -> "context7"
                [] server = Chars("magic") -> "magic"
                [] server = Chars("playwright") -> "playwright"
                [] OTHER -> tool_routes_get(tool_name)
    ELSE tool_routes_get(tool_name)

\* select_fallback_route under cached_operation, lines 246-282
select_fallback_route(w, tool_name, d, t, ms) ==
    LET cache_key == <<"fallback_route", tool_name>>
        Store(w0, result) ==
            [w |-> WorldSet(w0, cache_key, result, t, ms), ret |-> result]
        Compute(o) == Store(o.w, fallback_route(tool_name, o.ret))
        Cached(g) ==
            IF g.ret # None THEN [w |-> g.w, ret |-> g.ret]
            ELSE Compute(optimize_mcp_routing(g.w, tool_name, EmptyDict, d, t, ms))
    IN  Cached(WorldGet(w, cache_key, t))

\* create_fallback_response, lines 234-244
create_fallback_response(w, tool_name, tool_args, d, t, ms) ==
    LET Response(r) ==
            [w |-> r.w,
             ret |-> [allow |-> TRUE, modifiedArgs |-> tool_args,
                      metadata |-> [fallback |-> TRUE,
                                    reason |-> "Bridge service unavailable",
                                    mcpRoute |-> r.ret]]]
    IN  Response(select_fallback_route(w, tool_name, d, t, ms))

\* create_fast_response, lines 296-308
create_fast_response(w, tool_name, tool_args, processing_level, d, t, ms) ==
    LET Response(r) ==
            [w |-> r.w,
             ret |-> [allow |-> TRUE, modifiedArgs |-> tool_args,
                      metadata |-> [fastPath |-> TRUE,
                                    processingLevel |-> processing_level,
                                    reason |-> "Simple operation, bridge routing skipped for performance",
                                    mcpRoute |-> r.ret,
                                    intelligentActivation |-> TRUE]]]
    IN  Response(select_fallback_route(w, tool_name, d, t, ms))

\* what the bridge answers with status 200: decisions that allow or refuse,
\* with or without metadata, the empty object, and a body that is not JSON
NotJson == [not_json |-> TRUE]

BridgeBodies ==
    {[allow |-> TRUE, metadata |-> [mcpRoute |-> "magic"]],
     [allow |-> FALSE, metadata |-> [mcpRoute |-> "magic"]],
     [allow |-> TRUE],
     EmptyDict,
     NotJson}

\* what becomes of one requests.post: a response, requests.Timeout, or
\* another exception (no connection)
BridgeOutcomes ==
    {[kind |-> "timeout"], [kind |-> "error"],
     [kind |-> "response", status |-> 500, body |-> EmptyDict],
     [kind |-> "response", status |-> 404, body |-> EmptyDict]}
    \cup {[kind |-> "response", status |-> 200, body |-> b] : b \in BridgeBodies}

\* HOOK_TIMEOUT_MS, line 37: self.timeout * 1000
HookTimeoutMs == 100

\* the exception lines 203-220 raise for a bridge outcome, or None
RaisedInTry(outcome) ==
    CASE outcome.kind = "timeout" -> "Timeout"
      [] outcome.kind = "error" -> "ConnectionError"
      [] outcome.kind = "response" /\ outcome.status = 200
            /\ "not_json" \in DOMAIN outcome.body -> "ValueError"
      [] OTHER -> None

\* bool(value) of a cached decision
Truthy(value) == DOMAIN value # {}

route_to_bridge_TimeoutOnly(w, tool_name, tool_args, outcome, d, t, ms) ==
    LET use_cache == should_use_cache(tool_name)
        cache_key == <<"bridge_route", tool_name, tool_args>>
        exc == RaisedInTry(outcome)
        Reply(f, shared) ==
            [w |-> f.w, ret |-> f.ret, raised |-> FALSE, shared |-> shared]
        Fallback(w0) ==
            Reply(create_fallback_response(w0, tool_name, tool_args, d, t, ms),
                     FALSE)
        Request(timed) ==
            IF exc = "Timeout"
            THEN Fallback(WorldTime(timed, "bridge_timeout", HookTimeoutMs))
            ELSE IF exc # None
            THEN [w |-> timed, ret |-> EmptyDict, raised |-> TRUE, shared |-> FALSE]
            ELSE IF outcome.status = 200
            THEN [w |-> IF use_cache
                        THEN WorldSet(timed, cache_key, outcome.body, t, ms)
                        ELSE timed,
                  ret |-> outcome.body, raised |-> FALSE,
                  shared |-> use_cache]
            ELSE Fallback(timed)
        Sent(w0) ==
            Request(IF outcome.kind = "response"
                    THEN WorldTime([w0 EXCEPT !.requests = @ + 1],
                                   "bridge_request", d)
                    ELSE [w0 EXCEPT !.requests = @ + 1])
        Looked(g) ==
            IF g.hit /\ Truthy(g.ret) THEN Reply(g, TRUE) ELSE Sent(g.w)
        Timed(done) ==
            [w |-> WorldTime(done.w, "route_to_bridge", d), ret |-> done.ret,
             raised |-> done.raised, shared |-> done.shared,
             requested |-> done.w.requests > w.requests,
             cache_key |-> cache_key]
    IN  Timed(Looked(IF use_cache THEN WorldGet(w, cache_key, t)
                     ELSE [w |-> w, ret |-> None, hit |-> FALSE]))

route_to_bridge_CachesFallback(w, tool_name, tool_args, outcome, d, t, ms) ==
    LET use_cache == should_use_cache(tool_name)
        cache_key == <<"bridge_route", tool_name, tool_args>>
        exc == RaisedInTry(outcome)
        Reply(f, shared) ==
            [w |-> f.w, ret |-> f.ret, raised |-> FALSE, shared |-> shared]
        Stored(f) ==
            [w |-> IF use_cache THEN WorldSet(f.w, cache_key, f.ret, t, ms)
                   ELSE f.w,
             ret |-> f.ret]
        Fallback(w0) ==
            Reply(Stored(create_fallback_response(w0, tool_name, tool_args,
                                                  d, t, ms)),
                  FALSE)
        Request(timed) ==
            IF exc = "Timeout"
            THEN Fallback(WorldTime(timed, "bridge_timeout", HookTimeoutMs))
            ELSE IF exc # None
            THEN Fallback(timed)
            ELSE IF outcome.status = 200
            THEN [w |-> IF use_cache
                        THEN WorldSet(timed, cache_key, outcome.body, t, ms)
                        ELSE timed,
                  ret |-> outcome.body, raised |-> FALSE,
                  shared |-> use_cache]
            ELSE Fallback(timed)
        Sent(w0) ==
            Request(IF outcome.kind = "response"
                    THEN WorldTime([w0 EXCEPT !.requests = @ + 1],
                                   "bridge_request", d)
                    ELSE [w0 EXCEPT !.requests = @ + 1])
        Looked(g) ==
            IF g.hit /\ Truthy(g.ret) THEN Reply(g, TRUE) ELSE Sent(g.w)
        Timed(done) ==
            [w |-> WorldTime(done.w, "route_to_bridge", d), ret |-> done.ret,
             raised |-> done.raised, shared |-> done.shared,
             requested |-> done.w.requests > w.requests,
             cache_key |-> cache_key]
    IN  Timed(Looked(IF use_cache THEN WorldGet(w, cache_key, t)
                     ELSE [w |-> w, ret |-> None, hit |-> FALSE]))


\* route_to_bridge under timed_operation, lines 182-232: the world after
\* the call, what it returns (ret) unless an exception leaves it (raised),
\* whether a request was sent, and whether ret is the object the cache
\* holds under cache_key
route_to_bridge(w, tool_name, tool_args, outcome, d, t, ms) ==
    LET use_cache == should_use_cache(tool_name)
        cache_key == <<"bridge_route", tool_name, tool_args>>
        exc == RaisedInTry(outcome)
        Reply(f, shared) ==
            [w |-> f.w, ret |-> f.ret, raised |-> FALSE, shared |-> shared]
        Fallback(w0) ==
            Reply(create_fallback_response(w0, tool_name, tool_args, d, t, ms),
                     FALSE)
        Request(timed) ==
            IF exc = "Timeout"
            THEN Fallback(WorldTime(timed, "bridge_timeout", HookTimeoutMs))
            ELSE IF exc # None
            THEN Fallback(timed)
            ELSE IF outcome.status = 200
            THEN [w |-> IF use_cache
                        THEN WorldSet(timed, cache_key, outcome.body, t, ms)
                        ELSE timed,
                  ret |-> outcome.body, raised |-> FALSE,
                  shared |-> use_cache]
            ELSE Fallback(timed)
        Sent(w0) ==
            Request(IF outcome.kind = "response"
                    THEN WorldTime([w0 EXCEPT !.requests = @ + 1],
                                   "bridge_request", d)
                    ELSE [w0 EXCEPT !.requests = @ + 1])
        Looked(g) ==
            IF g.hit /\ Truthy(g.ret) THEN Reply(g, TRUE) ELSE Sent(g.w)
        Timed(done) ==
            [w |-> WorldTime(done.w, "route_to_bridge", d), ret |-> done.ret,
             raised |-> done.raised, shared |-> done.shared,
             requested |-> done.w.requests > w.requests,
             cache_key |-> cache_key]
    IN  Timed(Looked(IF use_cache THEN WorldGet(w, cache_key, t)
                     ELSE [w |-> w, ret |-> None, hit |-> FALSE]))

\* the stored value of key k replaced in cache c (the same object, altered)
SetValue(c, k, v) == [c EXCEPT ![KeyIndex(c, k)].value = v]

\* lines 382-388
error_output ==
    [allow |-> TRUE, error |-> "error", fallback |-> TRUE,
     processingLevel |-> "error", intelligentActivation |-> FALSE]

\* main under timed_operation, lines 310-390, for well-formed input: the
\* world after it and what it printed.  Line 367-369 asks for the
\* performance report once main_execution holds a multiple of 100 samples;
\* the report calls get_all_stats, which does not return when anything
\* was recorded (hung).
hook_main(w, cfg, tool_name, tool_args, outcome, d, t, ms) ==
    LET Samples(w1) ==
            IF OpIndex(w1.metrics, "main_execution") = 0 THEN 0
            ELSE Len(w1.metrics[OpIndex(w1.metrics, "main_execution")].samples)
        Exit(processing_level, skip, w1, output, hung) ==
            [w |-> IF hung THEN w1 ELSE WorldTime(w1, "main_execution", d),
             processing_level |-> processing_level,
             skipped |-> skip,
             requested |-> w1.requests > w.requests,
             hung |-> hung,
             output |-> output,
             exit_code |-> IF output.allow THEN 0 ELSE 1]
        Format(processing_level, skip, w1, result) ==
            Exit(processing_level, skip, w1,
                 [allow |-> DictGet(result, "allow", TRUE),
                  modifiedArgs |-> DictGet(result, "modifiedArgs", None),
                  metadata |-> DictGet(result, "metadata", EmptyDict),
                  performance |->
                      [processingLevel |-> processing_level,
                       fastPath |-> DictGet(DictGet(result, "metadata", EmptyDict),
                                            "fastPath", FALSE),
                       bridgeResponse |-> DictGet(result, "bridgeResponse", FALSE)]],
                 Samples(w1) > 0 /\ Samples(w1) % 100 = 0)
        Marked(processing_level, routed, result) ==
            Format(processing_level, FALSE,
                   IF routed.shared /\ HasKey(routed.w.cache, routed.cache_key)
                   THEN [routed.w EXCEPT
                            !.cache = SetValue(routed.w.cache, routed.cache_key,
                                               result)]
                   ELSE routed.w,
                   result)
        Routed(processing_level, routed) ==
            IF routed.raised
            THEN Exit(processing_level, FALSE, routed.w, error_output, FALSE)
            ELSE Marked(processing_level, routed,
                        DictSet(routed.ret, "metadata",
                                DictSet(DictSet(DictGet(routed.ret, "metadata",
                                                        EmptyDict),
                                                "processingLevel", processing_level),
                                        "intelligentActivation", TRUE)))
        Fast(processing_level, fast) ==
            Format(processing_level, TRUE, fast.w, fast.ret)
        Level(processing_level) ==
            IF should_skip_bridge_routing(cfg.enable_smart_routing, tool_name,
                                          processing_level)
            THEN Fast(processing_level,
                      create_fast_response(w, tool_name, tool_args,
                                           processing_level, d, t, ms))
            ELSE Routed(processing_level,
                        route_to_bridge(w, tool_name, tool_args, outcome, d, t, ms))
    IN  Level(determine_processing_level(cfg.enable_selective_activation,
                                         tool_name))

(***************************************************************************)
(* One process running main once: the hook is constructed from the         *)
(* environment (either switch on or off), the cache and the monitor are    *)
(* new, and the input names any tool.                                      *)
(***************************************************************************)
MeasuredValues == {50}

otherThanHook ==
    <<now, max_size, cache_ret, threadVars, mlock, mpc, marg, mloc, mstarted,
      classifyVars, handlerVars, interceptVars,
      utilVars>>

\* the world written back to the variables
WorldBecomes(w) ==
    /\ cache' = w.cache
    /\ hits' = w.hits
    /\ misses' = w.misses
    /\ metrics' = w.metrics
    /\ bridge_requests' = w.requests

HookMain(tool_name, tool_args, outcome, d) ==
    /\ hook_ret.op = "none"
    /\ \E r \in {hook_main(World, hook, tool_name, tool_args, outcome, d, now,
                           max_size)} :
           /\ WorldBecomes(r.w)
           /\ hook_ret' = [op |-> "main", n |-> hook_ret.n + 1,
                           tool |-> tool_name, args |-> tool_args,
                           outcome |-> outcome,
                           processing_level |-> r.processing_level,
                           skipped |-> r.skipped, requested |-> r.requested,
                           hung |-> r.hung, output |-> r.output,
                           exit_code |-> r.exit_code]
    /\ UNCHANGED hook
    /\ UNCHANGED otherThanHook

\* input that is not JSON: json.loads raises at line 317
HookMainBadInput(d) ==
    /\ hook_ret.op = "none"
    /\ WorldBecomes(WorldTime(World, "main_execution", d))
    /\ hook_ret' = [op |-> "main_error", n |-> hook_ret.n + 1,
                    output |-> error_output, exit_code |-> 0]
    /\ UNCHANGED hook
    /\ UNCHANGED otherThanHook

InitHook ==
    /\ now = 0
    /\ CacheNew
    /\ max_size = MaxCacheSize
    /\ ThreadsIdle
    /\ MonitorNew
    /\ ClassifyIdle
    /\ hook \in [enable_smart_routing : BOOLEAN,
                 enable_selective_activation : BOOLEAN]
    /\ hook_ret = [op |-> "none", n |-> 0]
    /\ bridge_requests = 0
    /\ InterceptorNew
    /\ UtilNew
    /\ HandlerNew

NextHook ==
    \/ \E tool_name \in HookTools, tool_args \in HookArgs,
          outcome \in BridgeOutcomes, d \in MeasuredValues :
            HookMain(tool_name, tool_args, outcome, d)
    \/ \E d \in MeasuredValues : HookMainBadInput(d)

SpecHook == InitHook /\ [][NextHook]_vars

\* the names of HookTools that start with mcp__
McpNamed == {"mcp__magic__build", "mcp__sequential-thinking__think"}

\* the file tools and the task tools, lines 65 and 69
FileAndTaskTools ==
    {"Read", "Write", "Edit", "MultiEdit", "Grep", "Glob", "Task",
     "TodoWrite", "Bash"}

\* the trivial tools, line 73
TrivialTools == {"LS", "WebSearch", "WebFetch"}

OnFastPath ==
    /\ hook.enable_smart_routing
    /\ hook.enable_selective_activation
    /\ hook_ret.tool \in {"LS", "Read", "Grep", "Glob"}

BridgeTools == {"Read", "Write", "WebSearch", "mcp__magic__build"}

HookRoute(tool_name, tool_args, outcome, d) ==
    /\ hook_ret.n < MaxBridgeCalls
    /\ \E r \in {route_to_bridge(World, tool_name, tool_args, outcome, d, now,
                                 max_size)} :
           /\ WorldBecomes(r.w)
           /\ hook_ret' = [op |-> "route_to_bridge", n |-> hook_ret.n + 1,
                           tool |-> tool_name, args |-> tool_args,
                           outcome |-> outcome, requested |-> r.requested,
                           raised |-> r.raised, ret |-> r.ret]
    /\ UNCHANGED hook
    /\ UNCHANGED otherThanHook

InitBridge ==
    /\ now = 0
    /\ CacheNew
    /\ max_size = MaxCacheSize
    /\ ThreadsIdle
    /\ MonitorNew
    /\ ClassifyIdle
    /\ HookNew
    /\ InterceptorNew
    /\ UtilNew
    /\ HandlerNew

NextBridge ==
    \E tool_name \in BridgeTools, tool_args \in HookArgs,
       outcome \in BridgeOutcomes, d \in MeasuredValues :
        HookRoute(tool_name, tool_args, outcome, d)

SpecBridge == InitBridge /\ [][NextBridge]_vars

\* the bridge failed: no answer in time, no answer at all, or a status
\* other than 200
BridgeFailed(outcome) ==
    \/ outcome.kind \in {"timeout", "error"}
    \/ outcome.kind = "response" /\ outcome.status # 200

\* C28: no failure of the bridge leaves route_to_bridge as an exception: on
\* a timeout, on any other exception of the request and on any status other
\* than 200 it returns a fallback decision with allow = true and
\* metadata.fallback = true that carries the arguments unchanged, for every
\* tool, write operations included.
C28_FailureIsFallback ==
    (/\ hook_ret.op = "route_to_bridge"
     /\ hook_ret.requested
     /\ BridgeFailed(hook_ret.outcome))
    => /\ ~hook_ret.raised
       /\ hook_ret.ret.allow = TRUE
       /\ hook_ret.ret.metadata.fallback = TRUE
       /\ hook_ret.ret.modifiedArgs = hook_ret.args

\* a write whose request fails with a connection error, after an earlier call
C28_Witness ==
    /\ hook_ret.op = "route_to_bridge"
    /\ hook_ret.n = 2
    /\ hook_ret.tool = "Write"
    /\ hook_ret.outcome.kind = "error"
    /\ hook_ret.requested
    /\ hook_ret.ret.metadata.fallback = TRUE

(***************************************************************************)
(* MorphToolInterceptor (morph_tool_interceptor.py).  Flags are a list of  *)
(* strings, a tool input is a record, and the files on disk are a table of *)
(* sizes.                                                                  *)
(***************************************************************************)
\* TOOL_MAPPING, lines 29-36
TOOL_MAPPING ==
    [Read |-> "mcp__morph__read_file",
     Write |-> "mcp__morph__write_file",
     Edit |-> "mcp__morph__edit_file",
     LS |-> "mcp__morph__list_directory",
     Glob |-> "mcp__morph__search_files",
     MultiEdit |-> "mcp__morph__edit_file"]

\* AUTO_ACTIVATION_THRESHOLDS, lines 39-43
filesystem_operations == 5
batch_edits == 3

InterceptTools ==
    {"Read", "Write", "Edit", "LS", "Glob", "MultiEdit", "Grep",
     "mcp__morph__read_file"}

InterceptInputs ==
    {EmptyDict,
     [file_path |-> "big.bin"],
     [file_path |-> "edge.bin"],
     [file_path |-> "absent.py"],
     [file_path |-> "a.py", edits |-> <<"e1", "e2">>],
     [edits |-> <<"e1", "e2", "e3">>]}

\* os.path.exists and os.path.getsize
FileExists(path) == path \in {"a.py", "big.bin", "edge.bin"}
FileSize(path) ==
    CASE path = "big.bin" -> 1024 * 1024 + 1
      [] path = "edge.bin" -> 1024 * 1024
      [] OTHER -> 12

\* the elements of a list
Elements(q) == {q[i] : i \in 1..Len(q)}

\* is_batch_operation, lines 109-113
is_batch_operation(tool_input) ==
    IF "edits" \in DOMAIN tool_input
    THEN Len(DictGet(tool_input, "edits", << >>)) >= batch_edits
    ELSE FALSE

\* is_large_directory_operation, lines 115-119
is_large_directory_operation(tool_input) == TRUE

\* is_performance_critical_operation, lines 121-139
is_performance_critical_operation(tool_name, tool_input) ==
    IF /\ tool_name \in {"Read", "Write", "Edit"}
       /\ "file_path" \in DOMAIN tool_input
       /\ FileExists(tool_input.file_path)
       /\ FileSize(tool_input.file_path) > 1024 * 1024
    THEN TRUE
    ELSE IF tool_name = "MultiEdit"
         THEN Len(DictGet(tool_input, "edits", << >>)) > 1
    ELSE FALSE

should_auto_activate_StrictThreshold(stats, tool_name, tool_input, flags) ==
    IF tool_name \notin DOMAIN TOOL_MAPPING THEN FALSE
    ELSE IF stats.total_operations > filesystem_operations THEN TRUE
    ELSE IF tool_name = "MultiEdit" /\ is_batch_operation(tool_input) THEN TRUE
    ELSE IF tool_name = "LS" /\ is_large_directory_operation(tool_input)
         THEN TRUE
    ELSE IF "--morph-fast" \in Elements(flags)
            /\ is_performance_critical_operation(tool_name, tool_input)
         THEN TRUE
    ELSE FALSE

\* should_auto_activate, lines 80-107
should_auto_activate(stats, tool_name, tool_input, flags) ==
    IF tool_name \notin DOMAIN TOOL_MAPPING THEN FALSE
    ELSE IF stats.total_operations >= filesystem_operations THEN TRUE
    ELSE IF tool_name = "MultiEdit" /\ is_batch_operation(tool_input) THEN TRUE
    ELSE IF tool_name = "LS" /\ is_large_directory_operation(tool_input)
         THEN TRUE
    ELSE IF "--morph-fast" \in Elements(flags)
            /\ is_performance_critical_operation(tool_name, tool_input)
         THEN TRUE
    ELSE FALSE

should_intercept_MorphFirst(stats, tool_name, tool_input, flags) ==
    IF "--morph-only" \in Elements(flags)
    THEN tool_name \in DOMAIN TOOL_MAPPING
    ELSE IF "--morph" \in Elements(flags) \/ "--morphllm" \in Elements(flags)
         THEN tool_name \in DOMAIN TOOL_MAPPING
    ELSE IF "--no-morph" \in Elements(flags) THEN FALSE
    ELSE IF should_auto_activate(stats, tool_name, tool_input, flags) THEN TRUE
    ELSE FALSE

\* should_intercept, lines 57-78
should_intercept(stats, tool_name, tool_input, flags) ==
    IF "--no-morph" \in Elements(flags) THEN FALSE
    ELSE IF "--morph-only" \in Elements(flags)
         THEN tool_name \in DOMAIN TOOL_MAPPING
    ELSE IF "--morph" \in Elements(flags) \/ "--morphllm" \in Elements(flags)
         THEN tool_name \in DOMAIN TOOL_MAPPING
    ELSE IF should_auto_activate(stats, tool_name, tool_input, flags) THEN TRUE
    ELSE FALSE

\* validate_morph_server, lines 141-154
validate_morph_server(env) ==
    \A env_var \in {"MORPH_API_KEY", "MORPH_SERVER_URL"} : env_var \in env

\* map_multiedit_parameters, lines 169-183
map_multiedit_parameters(tool_input) ==
    [file_path |-> DictGet(tool_input, "file_path", ""),
     edits |-> DictGet(tool_input, "edits", << >>),
     batch_mode |-> TRUE,
     atomic_operation |-> TRUE]

\* map_tool_parameters, lines 156-167
map_tool_parameters(tool_name, tool_input) ==
    IF tool_name \in {"Read", "Write", "Edit", "LS", "Glob"} THEN tool_input
    ELSE IF tool_name = "MultiEdit" THEN map_multiedit_parameters(tool_input)
    ELSE tool_input

\* create_morph_tool_call, lines 185-197, without timestamp and session_id
create_morph_tool_call(tool_name, tool_input) ==
    [tool |-> DictGet(TOOL_MAPPING, tool_name, tool_name),
     input |-> map_tool_parameters(tool_name, tool_input),
     original_tool |-> tool_name]

\* parse_flags, lines 271-296
morph_flags ==
    {"--morph", "--morphllm", "--morph-only", "--morph-fast", "--no-morph"}

parse_flags(env, cmd_args) ==
    (IF "MORPH_ENABLED" \in env THEN <<"--morph">> ELSE << >>)
    \o (IF "MORPH_ONLY" \in env THEN <<"--morph-only">> ELSE << >>)
    \o (IF "MORPH_FAST" \in env THEN <<"--morph-fast">> ELSE << >>)
    \o (IF "NO_MORPH" \in env THEN <<"--no-morph">> ELSE << >>)
    \o SelectSeq(cmd_args, LAMBDA arg : arg \in morph_flags)

\* log_interception, lines 199-217: the exception it raises, or None.
\* json.dumps(log_entry) meets session_stats["start_time"], a datetime,
\* and raises TypeError.
log_interception(stats) ==
    IF "start_time" \in DOMAIN stats THEN "TypeError" ELSE None

\* create_fallback_response, lines 261-269
interceptor_fallback_response(tool_name) ==
    [action |-> "allow", reason |-> "MorphLLM unavailable, using native tool",
     fallback_mode |-> TRUE,
     performance_note |-> "Performance may be reduced due to MorphLLM unavailability"]

\* the block decision of lines 243-254
block_response(tool_name, morph_call) ==
    [action |-> "block", exit_code |-> 2,
     reason |-> "Routing to MorphLLM for improved performance",
     alternative_tool |-> morph_call.tool,
     alternative_input |-> morph_call.input,
     morph_metadata |-> [original_tool |-> tool_name,
                         performance_expected |-> TRUE,
                         fallback_available |-> TRUE]]

NoReturn == [raised |-> TRUE]

Bump(stats, counter) == [stats EXCEPT ![counter] = @ + 1]

\* process_tool_call, lines 219-259: the session counters after the call,
\* the exception that left it (or None) and what it returned
process_tool_call(stats, env, cmd_args, tool_name, tool_input) ==
    LET counted == Bump(stats, "total_operations")
        flags == parse_flags(env, cmd_args)
        intercept == should_intercept(counted, tool_name, tool_input, flags)
        valid == validate_morph_server(env)
        Outcome(at_log, after, ret) ==
            IF log_interception(at_log) # None
            THEN [stats |-> at_log, raised |-> log_interception(at_log),
                  ret |-> NoReturn, intercept |-> intercept, valid |-> valid]
            ELSE [stats |-> after, raised |-> None, ret |-> ret,
                  intercept |-> intercept, valid |-> valid]
    IN  IF intercept
        THEN IF ~valid
             THEN Outcome(counted, Bump(counted, "fallback_operations"),
                          interceptor_fallback_response(tool_name))
             ELSE Outcome(counted, Bump(counted, "morph_operations"),
                          block_response(tool_name,
                              create_morph_tool_call(tool_name, tool_input)))
        ELSE Outcome(Bump(counted, "native_operations"),
                     Bump(counted, "native_operations"), [action |-> "allow"])

\* what main prints and its exit code, lines 305-336, for parsed input
interceptor_main(result) ==
    IF result.raised # None
    THEN [printed |-> [action |-> "allow", error |-> result.raised,
                       fallback_mode |-> TRUE],
          exit_code |-> 0]
    ELSE [printed |-> result.ret,
          exit_code |-> DictGet(result.ret, "exit_code", 0)]

otherThanInterceptor ==
    <<now, cacheVars, threadVars, monitorVars, classifyVars, handlerVars,
      hookVars, utilVars>>

\* interceptor.process_tool_call(tool_name, tool_input), at most limit times
ProcessToolCall(tool_name, tool_input, limit) ==
    /\ session_stats.total_operations < limit
    /\ \E r \in {process_tool_call(session_stats, environ, argv, tool_name,
                                   tool_input)} :
           /\ session_stats' = r.stats
           /\ icpt_ret' = [op |-> "process_tool_call", tool |-> tool_name,
                           input |-> tool_input, before |-> session_stats,
                           intercept |-> r.intercept, valid |-> r.valid,
                           raised |-> r.raised, ret |-> r.ret,
                           main |-> interceptor_main(r)]
    /\ UNCHANGED <<environ, argv>>
    /\ UNCHANGED otherThanInterceptor

\* interceptor.should_intercept(tool_name, tool_input, flags)
ShouldIntercept(tool_name, tool_input, flags) ==
    /\ icpt_ret' = [op |-> "should_intercept", tool |-> tool_name,
                    input |-> tool_input, flags |-> flags,
                    ret |-> should_intercept(session_stats, tool_name,
                                             tool_input, flags)]
    /\ UNCHANGED <<session_stats, environ, argv>>
    /\ UNCHANGED otherThanInterceptor

\* interceptor.should_auto_activate(tool_name, tool_input, flags)
ShouldAutoActivate(tool_name, tool_input, flags) ==
    /\ icpt_ret' = [op |-> "should_auto_activate", tool |-> tool_name,
                    input |-> tool_input, flags |-> flags,
                    ret |-> should_auto_activate(session_stats, tool_name,
                                                 tool_input, flags)]
    /\ UNCHANGED <<session_stats, environ, argv>>
    /\ UNCHANGED otherThanInterceptor

(***************************************************************************)
(* should_intercept and should_auto_activate called on an interceptor      *)
(* whose session counter earlier calls have raised.                        *)
(***************************************************************************)
FlagLists ==
    {<< >>, <<"--morph">>, <<"--morphllm">>, <<"--morph-only">>,
     <<"--morph-fast">>, <<"--no-morph">>, <<"--morph", "--no-morph">>,
     <<"--no-morph", "--morph-only">>, <<"--morphllm", "--no-morph">>}

AutoFlagLists == {<< >>, <<"--morph-fast">>, <<"--morph">>}

InitActivate ==
    /\ now = 0
    /\ CacheNew
    /\ max_size = 1
    /\ ThreadsIdle
    /\ MonitorNew
    /\ ClassifyIdle
    /\ HookNew
    /\ InterceptorNew
    /\ UtilNew
    /\ HandlerNew

NextActivate ==
    \/ ProcessToolCall("Read", EmptyDict, MaxOperations)
    \/ \E tool_name \in InterceptTools, tool_input \in InterceptInputs,
          flags \in FlagLists :
            ShouldIntercept(tool_name, tool_input, flags)
    \/ \E tool_name \in InterceptTools, tool_input \in InterceptInputs,
          flags \in AutoFlagLists :
            ShouldAutoActivate(tool_name, tool_input, flags)

SpecActivate == InitActivate /\ [][NextActivate]_vars

\* C29: without flags should_auto_activate is true for every tool of
\* TOOL_MAPPING once total_operations is at least 5, false for Read while
\* the counter is below 5, and false for every tool outside TOOL_MAPPING
\* whatever the counter (and whatever the flags).
C29_AutoActivation ==
    icpt_ret.op = "should_auto_activate" =>
        LET mapped == icpt_ret.tool
                        \in {"Read", "Write", "Edit", "LS", "Glob", "MultiEdit"}
            total == session_stats.total_operations
        IN  /\ (icpt_ret.flags = << >> /\ mapped /\ total >= 5) => icpt_ret.ret
            /\ (icpt_ret.flags = << >> /\ icpt_ret.tool = "Read" /\ total < 5)
                  => ~icpt_ret.ret
            /\ ~mapped => ~icpt_ret.ret

\* Read without flags at a counter of exactly 5
C29_Witness ==
    /\ icpt_ret.op = "should_auto_activate"
    /\ icpt_ret.tool = "Read"
    /\ icpt_ret.flags = << >>
    /\ session_stats.total_operations = 5
    /\ icpt_ret.ret

\* C30: with --no-morph among the flags should_intercept is false whatever
\* the other flags, the tool, its input and the session counter; without
\* it, and with --morph-only, --morph or --morphllm among them, it is true
\* exactly when the tool is in TOOL_MAPPING.
C30_FlagPrecedence ==
    icpt_ret.op = "should_intercept" =>
        LET given == Elements(icpt_ret.flags)
            mapped == icpt_ret.tool
                        \in {"Read", "Write", "Edit", "LS", "Glob", "MultiEdit"}
        IN  /\ "--no-morph" \in given => ~icpt_ret.ret
            /\ ("--no-morph" \notin given
                /\ given \cap {"--morph-only", "--morph", "--morphllm"} # {})
                  => (icpt_ret.ret <=> mapped)

\* --no-morph after --morph, for a mapped tool, with the counter past the
\* threshold of auto-activation
C30_Witness ==
    /\ icpt_ret.op = "should_intercept"
    /\ icpt_ret.flags = <<"--morph", "--no-morph">>
    /\ icpt_ret.tool = "Read"
    /\ session_stats.total_operations >= 5
    /\ ~icpt_ret.ret

(***************************************************************************)
(* process_tool_call in a process started with any settings and flags.     *)
(***************************************************************************)
Environments ==
    {{}, {"MORPH_API_KEY"}, {"MORPH_SERVER_URL"},
     {"MORPH_API_KEY", "MORPH_SERVER_URL"},
     {"MORPH_ENABLED"}, {"MORPH_API_KEY", "MORPH_SERVER_URL", "NO_MORPH"}}

Arguments ==
    {<< >>, <<"--morph">>, <<"--morph-only">>, <<"--no-morph">>,
     <<"--morph-fast">>}

InitIntercept ==
    /\ now = 0
    /\ CacheNew
    /\ max_size = 1
    /\ ThreadsIdle
    /\ MonitorNew
    /\ ClassifyIdle
    /\ HookNew
    /\ session_stats = [total_operations |-> 0, morph_operations |-> 0,
                        native_operations |-> 0, fallback_operations |-> 0,
                        start_time |-> [datetime |-> 0]]
    /\ environ \in Environments
    /\ argv \in Arguments
    /\ icpt_ret = [op |-> "none"]
    /\ UtilNew
    /\ HandlerNew

NextIntercept ==
    \E tool_name \in InterceptTools, tool_input \in InterceptInputs :
        ProcessToolCall(tool_name, tool_input, MaxInterceptCalls)

SpecIntercept == InitIntercept /\ [][NextIntercept]_vars

\* C27: when a call qualifies for interception and the validation of the
\* external service fails, process_tool_call returns an allow decision in
\* fallback mode, never a block, and has counted one more fallback
\* operation.
C27_FallbackOnFailedValidation ==
    (/\ icpt_ret.op = "process_tool_call"
     /\ icpt_ret.intercept
     /\ ~icpt_ret.valid)
    => /\ icpt_ret.raised = None
       /\ icpt_ret.ret.action = "allow"
       /\ icpt_ret.ret.fallback_mode = TRUE
       /\ session_stats.fallback_operations
             = icpt_ret.before.fallback_operations + 1

(***************************************************************************)
(* generate_cache_key (performance_optimizer.py:204-209).  A JSON value is *)
(* a record with one field named after its type: a str, an int, a list of  *)
(* values, or a dict, the sequence of its items [k, val] in insertion      *)
(* order.  The text json.dumps writes is a sequence of pieces.             *)
(***************************************************************************)
JStr(s) == [str |-> s]
JInt(n) == [int |-> n]
JList(q) == [list |-> q]
JDict(items) == [dict |-> items]
IsA(obj, type) == type \in DOMAIN obj

\* the order of str keys under Python's comparison of strings
KeyRank(k) ==
    CASE k = "a" -> 1
      [] k = "args" -> 2
      [] k = "b" -> 3
      [] k = "tool" -> 4

\* sorted(items) by key: insertion of each item into the sorted rest
RECURSIVE SortedItems(_)
SortedItems(items) ==
    IF items = << >> THEN << >>
    ELSE LET Insert(item, rest) ==
                 SelectSeq(rest, LAMBDA r : KeyRank(r.k) < KeyRank(item.k))
                 \o <<item>>
                 \o SelectSeq(rest, LAMBDA r : ~(KeyRank(r.k) < KeyRank(item.k)))
         IN  Insert(Head(items), SortedItems(Tail(items)))

\* separator.join(parts)
RECURSIVE Join(_, _)
Join(separator, parts) ==
    IF parts = << >> THEN << >>
    ELSE IF Len(parts) = 1 THEN parts[1]
    ELSE parts[1] \o <<separator>> \o Join(separator, Tail(parts))

\* json.dumps(obj, sort_keys=sort_keys)
RECURSIVE json_dumps(_, _)
json_dumps(obj, sort_keys) ==
    CASE IsA(obj, "str") -> <<"\"", obj.str, "\"">>
      [] IsA(obj, "int") -> <<ToString(obj.int)>>
      [] IsA(obj, "list") ->
            <<"[">>
            \o Join(", ", [i \in 1..Len(obj.list) |->
                             json_dumps(obj.list[i], sort_keys)])
            \o <<"]">>
      [] IsA(obj, "dict") ->
            LET Written(items) ==
                    <<"{">>
                    \o Join(", ", [i \in 1..Len(items) |->
                                     <<"\"", items[i].k, "\"", ": ">>
                                     \o json_dumps(items[i].val, sort_keys)])
                    \o <<"}">>
            IN  Written(IF sort_keys THEN SortedItems(obj.dict) ELSE obj.dict)

\* hashlib.md5(text.encode()).hexdigest(), taken to be free of collisions
md5_hexdigest(text) == <<"md5">> \o text

generate_cache_key_InsertionOrder(prefix, data) ==
    <<prefix, ":">> \o md5_hexdigest(json_dumps(data, FALSE))

\* generate_cache_key, lines 204-209
generate_cache_key(prefix, data) ==
    <<prefix, ":">> \o md5_hexdigest(json_dumps(data, TRUE))

\* the dicts with some of the keys, in every order of insertion
OrderedDicts(keys, values) ==
    {JDict(items) :
        items \in {q \in UNION {[1..n -> [k : keys, val : values]] :
                                   n \in 0..Cardinality(keys)} :
                      \A i, j \in 1..Len(q) : q[i].k = q[j].k => i = j}}

KeyArguments == OrderedDicts({"a", "b"}, {JStr("x"), JInt(1)})

\* {"tool": t, "args": a} as optimize_mcp_routing builds it (line 214), and
\* the same mapping built in the other order; args is a dict, or a list
\* holding one
KeyInputs ==
    LET inner == {d \in KeyArguments : Len(d.dict) = 2}
        values == KeyArguments \cup {JList(<<d>>) : d \in inner}
    IN  KeyArguments
        \cup {JDict(<<[k |-> "tool", val |-> JStr("Read")],
                      [k |-> "args", val |-> a]>>) : a \in values}
        \cup {JDict(<<[k |-> "args", val |-> a],
                      [k |-> "tool", val |-> JStr("Read")]>>) : a \in values}

otherThanUtil ==
    <<now, cacheVars, threadVars, monitorVars, classifyVars, handlerVars,
      hookVars, interceptVars>>

\* generate_cache_key(prefix, data)
GenerateCacheKey(prefix, data) ==
    /\ key_ret' = [prev |-> key_ret.last,
                   last |-> [called |-> TRUE, prefix |-> prefix,
                             data |-> data,
                             key |-> generate_cache_key(prefix, data)]]
    /\ UNCHANGED batcherVars
    /\ UNCHANGED otherThanUtil

InitKey ==
    /\ now = 0
    /\ CacheNew
    /\ max_size = 1
    /\ ThreadsIdle
    /\ MonitorNew
    /\ ClassifyIdle
    /\ HookNew
    /\ InterceptorNew
    /\ UtilNew
    /\ HandlerNew

NextKey ==
    \E prefix \in {"routing", "bridge_route"}, data \in KeyInputs :
        GenerateCacheKey(prefix, data)

SpecKey == InitKey /\ [][NextKey]_vars

\* x == y for two JSON values in Python: dicts are equal when they have the
\* same keys with equal values, whatever the order of insertion
RECURSIVE EqualAsMappings(_, _)
EqualAsMappings(x, y) ==
    IF DOMAIN x # DOMAIN y THEN FALSE
    ELSE IF IsA(x, "dict")
         THEN /\ {x.dict[i].k : i \in 1..Len(x.dict)}
                    = {y.dict[i].k : i \in 1..Len(y.dict)}
              /\ \A i \in 1..Len(x.dict), j \in 1..Len(y.dict) :
                    x.dict[i].k = y.dict[j].k
                       => EqualAsMappings(x.dict[i].val, y.dict[j].val)
    ELSE IF IsA(x, "list")
         THEN /\ Len(x.list) = Len(y.list)
              /\ \A i \in 1..Len(x.list) :
                    EqualAsMappings(x.list[i], y.list[i])
    ELSE x = y

\* C31: two generate_cache_key calls with the same prefix and with inputs
\* that are equal as mappings, whatever the order in which the keys of the
\* input and of the mappings nested in it were inserted, return the same
\* fingerprint; so do two calls with the same input.
C31_KeyOrderInsensitive ==
    (/\ key_ret.prev.called
     /\ key_ret.last.called
     /\ key_ret.prev.prefix = key_ret.last.prefix
     /\ EqualAsMappings(key_ret.prev.data, key_ret.last.data))
    => key_ret.prev.key = key_ret.last.key

\* two inputs whose keys were inserted in different orders at both levels
C31_Witness ==
    /\ key_ret.prev.called
    /\ key_ret.last.called
    /\ key_ret.prev.prefix = key_ret.last.prefix
    /\ key_ret.prev.data.dict # << >>
    /\ key_ret.prev.data.dict[1].k = "tool"
    /\ key_ret.last.data.dict # << >>
    /\ key_ret.last.data.dict[1].k = "args"
    /\ IsA(key_ret.last.data.dict[1].val, "dict")
    /\ Len(key_ret.last.data.dict[1].val.dict) = 2
    /\ key_ret.last.data.dict[1].val # key_ret.prev.data.dict[2].val
    /\ EqualAsMappings(key_ret.prev.data, key_ret.last.data)
    /\ key_ret.prev.key = key_ret.last.key

(***************************************************************************)
(* execute_fallback_strategy for graceful degradation, given inputs with   *)
(* and without a limit of their own.                                       *)
(***************************************************************************)
DegradeInputs ==
    {EmptyDict,
     [file_path |-> "a.py"],
     [file_path |-> "a.py", limit |-> 50],
     [file_path |-> "a.py", limit |-> 0],
     [limit |-> 5000]}

InitDegrade ==
    /\ now = 0
    /\ CacheNew
    /\ max_size = 1
    /\ ThreadsIdle
    /\ MonitorNew
    /\ ClassifyIdle
    /\ HookNew
    /\ InterceptorNew
    /\ UtilNew
    /\ HandlerNew

NextDegrade ==
    \/ \E tool_name \in SelectTools, tool_input \in DegradeInputs,
          msg \in KindMessages :
           SelectStrategy(tool_name, tool_input, msg, 0)
    \/ ExecuteStrategy("graceful_degradation")

SpecDegrade == InitDegrade /\ [][NextDegrade]_vars

\* C32: executing graceful degradation for a memory error returns action
\* degrade; the degraded input has the keys and values of the input given,
\* and limit = 1000 besides when the input had no limit; the input given
\* is the same after the call.  For every other kind the call returns what
\* the native-tool fallback returns, and counts one use of native_tool.
C32_DegradeInjectsLimit ==
    Executed("graceful_degradation") =>
        IF last_op.ctx.error_type = "memory_error"
        THEN /\ response.action = "degrade"
             /\ DOMAIN response.degraded_input
                   = DOMAIN last_op.ctx.tool_input \cup {"limit"}
             /\ \A k \in DOMAIN last_op.ctx.tool_input :
                   response.degraded_input[k] = last_op.ctx.tool_input[k]
             /\ "limit" \notin DOMAIN last_op.ctx.tool_input
                   => response.degraded_input.limit = 1000
             /\ last_op.input_after = last_op.ctx.tool_input
             /\ stats_file = prev_file
        ELSE /\ response.action = "fallback"
             /\ response.fallback_tool =
                    (IF last_op.ctx.tool_name \in DOMAIN tool_fallback_mapping
                     THEN NativeEquivalent(last_op.ctx.tool_name)
                     ELSE "Read")
             /\ response.fallback_input = last_op.ctx.tool_input
             /\ last_op.input_after = last_op.ctx.tool_input
             /\ PersistedUses(stats_file, "native_tool")
                   = PersistedUses(prev_file, "native_tool") + 1

\* a memory error on an input without limit: 1000 was injected into the
\* copy and not into the input given
C32_Witness ==
    /\ Executed("graceful_degradation")
    /\ last_op.ctx.error_type = "memory_error"
    /\ last_op.ctx.tool_input = [file_path |-> "a.py"]
    /\ response.degraded_input = [file_path |-> "a.py", limit |-> 1000]
    /\ last_op.input_after = [file_path |-> "a.py"]

(***************************************************************************)
(* update_circuit_breaker called on its own, for failures and successes,   *)
(* on the stats file that earlier handle_error calls have left.            *)
(***************************************************************************)
\* update_circuit_breaker(kind, True)
RecordFailure(k) ==
    /\ calls < MaxRecordCalls
    /\ stats_file' = update_circuit_breaker(stats_file, k, TRUE, now)
    /\ prev_file' = stats_file
    /\ last_op' = [op |-> "record", kind |-> k, is_failure |-> TRUE]
    /\ StreakGrows(k)
    /\ UNCHANGED <<now, response, history, proc>>
    /\ UNCHANGED otherThanHandler

InitRecord ==
    /\ now = 0
    /\ CacheNew
    /\ max_size = 1
    /\ ThreadsIdle
    /\ MonitorNew
    /\ ClassifyIdle
    /\ HookNew
    /\ InterceptorNew
    /\ UtilNew
    /\ stats_file \in {PriorFile(n, msg) : n \in 0..2, msg \in BreakerMessages}
    /\ prev_file = stats_file
    /\ response = [action |-> "none"]
    /\ last_op = [op |-> "none"]
    /\ calls = 0
    /\ streak = [k \in BreakerKinds |-> 0]
    /\ streak_since = [k \in BreakerKinds |-> 0]
    /\ history = << >>
    /\ proc = [p \in Procs |-> ProcIdle]

NextRecord ==
    \/ \E k \in BreakerKinds : RecordFailure(k)
    \/ \E k \in BreakerKinds : RecordSuccess(k)
    \/ BreakerTick

SpecRecord == InitRecord /\ [][NextRecord]_vars

\* a step that is update_circuit_breaker(kind, True)
RecordFailureStep ==
    /\ calls' = calls + 1
    /\ last_op'.op = "record"
    /\ last_op'.is_failure

\* C33: update_circuit_breaker(K, True) adds exactly 1 to the persisted
\* failure_count of K and sets its last_failure to the time of the call;
\* the failure_count and last_failure of every other kind, total_errors,
\* every count of error_types and every count of fallback_strategies are
\* the same before and after.
C33_RecordFailureFrame ==
    [][RecordFailureStep =>
         /\ PersistedCount(stats_file', last_op'.kind)
               = PersistedCount(stats_file, last_op'.kind) + 1
         /\ PersistedLast(stats_file', last_op'.kind) = IsoFormat(now)
         /\ \A k \in ErrorTypes \ {last_op'.kind} :
               /\ PersistedCount(stats_file', k) = PersistedCount(stats_file, k)
               /\ PersistedLast(stats_file', k) = PersistedLast(stats_file, k)
         /\ PersistedTotal(stats_file') = PersistedTotal(stats_file)
         /\ \A k \in ErrorTypes :
               PersistedErrors(stats_file', k) = PersistedErrors(stats_file, k)
         /\ \A s \in Strategies :
               PersistedUses(stats_file', s) = PersistedUses(stats_file, s)
      ]_vars

\* a failure of timeout recorded at a later time than the failures on
\* record, beside failures of the other kind and aggregate counts
C33_Witness ==
    /\ last_op.op = "record"
    /\ last_op.is_failure
    /\ last_op.kind = "timeout"
    /\ PersistedCount(stats_file, "timeout") = 3
    /\ PersistedCount(prev_file, "timeout") = 2
    /\ PersistedLast(stats_file, "timeout") = IsoFormat(now)
    /\ now > 0
    /\ PersistedCount(stats_file, "server_unavailable") > 0
    /\ PersistedTotal(stats_file) > 0

(***************************************************************************)
(* Two processes in handle_error for failures of two different kinds.      *)
(***************************************************************************)
\* both processes have returned, and their failures were of different kinds
RaceOverTwoKinds ==
    /\ \A p \in Procs : proc[p].pc = "done"
    /\ proc["p1"].kind # proc["p2"].kind

\* how much the persisted failure_count of the failure of p has grown
\* since the processes started
Growth(p) ==
    PersistedCount(stats_file, proc[p].kind)
        - PersistedCount(prev_file, proc[p].kind)

AttemptStepOf(k) ==
    /\ Len(history') = Len(history) + 1
    /\ classify_error(history'[Len(history')].message) = k

\* the failure_count of k is at the threshold and its last failure is at
\* least the reset timeout old
TimedOut(file, k, t) ==
    /\ PersistedCount(file, k) >= circuit_breaker_failure_threshold
    /\ PersistedLast(file, k) # NoneValue
    /\ t - FromIsoFormat(PersistedLast(file, k)) >= circuit_breaker_reset_timeout

\* C35: no handle_error call and no passing of time lowers a persisted
\* failure_count; when the count of a kind is at the threshold and the
\* reset timeout has passed since its last failure, is_circuit_breaker_open
\* is false, and the next handle_error failure of the kind leaves it true.
C35_OneFailureReopens ==
    [][\A k \in ErrorTypes :
          /\ PersistedCount(stats_file', k) >= PersistedCount(stats_file, k)
          /\ TimedOut(stats_file, k, now)
                => /\ ~is_circuit_breaker_open(stats_file, k, now)
                   /\ AttemptStepOf(k)
                         => is_circuit_breaker_open(stats_file', k, now')
      ]_vars

\* the sixth timeout was handled when the five before it were 300 s old,
\* and the circuit is open again
C35_Witness ==
    /\ Len(history) = circuit_breaker_failure_threshold + 1
    /\ classify_error(history[1].message) = "timeout"
    /\ TimedOut(prev_file, "timeout", now)
    /\ PersistedCount(prev_file, "timeout") = circuit_breaker_failure_threshold
    /\ PersistedCount(stats_file, "timeout")
          = circuit_breaker_failure_threshold + 1
    /\ is_circuit_breaker_open(stats_file, "timeout", now)

(***************************************************************************)
(* What route_to_bridge reads from the cache and stores in it.             *)
(***************************************************************************)
\* the calls made and what the bridge does with each: two cacheable tools, one
\* of them with two argument lists, and two write operations
ServeCalls ==
    {[tool |-> "Read", args |-> a] : a \in HookArgs}
    \cup {[tool |-> t, args |-> [file_path |-> "a.py"]] :
             t \in {"WebSearch", "Write", "MultiEdit"}}

ServeOutcomes ==
    {[kind |-> "timeout"],
     [kind |-> "response", status |-> 500, body |-> EmptyDict]}
    \cup {[kind |-> "response", status |-> 200, body |-> b] :
             b \in {[allow |-> TRUE, metadata |-> [mcpRoute |-> "magic"]],
                    EmptyDict, NotJson}}

\* time passes between two calls
BridgeTick ==
    /\ Tick
    /\ UNCHANGED <<cache, hits, misses, metrics, hookVars>>
    /\ UNCHANGED <<max_size, cache_ret, threadVars, mlock, mpc, marg, mloc,
                   mstarted, classifyVars, handlerVars, interceptVars,
                   utilVars>>

NextServe ==
    \/ \E call \in ServeCalls, outcome \in ServeOutcomes,
          d \in MeasuredValues :
           HookRoute(call.tool, call.args, outcome, d)
    \/ BridgeTick

SpecServe == InitBridge /\ [][NextServe]_vars

\* a step that is one route_to_bridge call
RouteStep == hook_ret'.op = "route_to_bridge" /\ hook_ret'.n = hook_ret.n + 1

\* the key of the call and the decision the cache holds under it
RouteKey(call) == <<"bridge_route", call.tool, call.args>>
StoredDecision(c, k) == c[KeyIndex(c, k)].value

\* C36: a route_to_bridge call for a cacheable tool, made while the cache
\* holds under the key of the call a decision stored less than the ttl ago
\* (stored by an earlier call that got a 200 response), returns that
\* decision and sends no bridge request, whatever the decision holds.
C36_StoredDecisionServed ==
    [][(/\ RouteStep
        /\ should_use_cache(hook_ret'.tool)
        /\ PresentUnexpired(cache, RouteKey(hook_ret'), now))
       => /\ ~hook_ret'.requested
          /\ hook_ret'.ret = StoredDecision(cache, RouteKey(hook_ret'))
      ]_vars

\* C36 for the decisions that are not empty: a call for a cacheable tool
\* made while the cache holds under its key an unexpired decision other
\* than {} returns that decision and sends no bridge request.
C36_NonEmptyDecisionServed ==
    [][(/\ RouteStep
        /\ should_use_cache(hook_ret'.tool)
        /\ PresentUnexpired(cache, RouteKey(hook_ret'), now)
        /\ Truthy(StoredDecision(cache, RouteKey(hook_ret'))))
       => /\ ~hook_ret'.requested
          /\ hook_ret'.ret = StoredDecision(cache, RouteKey(hook_ret'))
          /\ bridge_requests' = bridge_requests
      ]_vars

\* the call ended in create_fallback_response
FellBack(call) ==
    \/ BridgeFailed(call.outcome)
    \/ call.outcome.body = NotJson

\* the entries of cache c that hold a bridge decision
StoredDecisions(c) == SelectSeq(c, LAMBDA e : e.key[1] = "bridge_route")

\* C37 as stated: route_to_bridge puts an entry into the cache only when
\* the tool is not one of Write, Edit, MultiEdit, TodoWrite and the bridge
\* has answered this call with status 200, and the entry holds the decision
\* returned; after a timeout, an exception or another status the cache
\* holds no new entry; a call for a write operation leaves the cache and
\* its counters as they were and sends a bridge request.
C37_OnlySuccessesCached ==
    [][RouteStep =>
         /\ Entries(cache') \ Entries(cache) # {}
               => /\ hook_ret'.tool
                        \notin {"Write", "Edit", "MultiEdit", "TodoWrite"}
                  /\ hook_ret'.requested
                  /\ hook_ret'.outcome.kind = "response"
                  /\ hook_ret'.outcome.status = 200
                  /\ \A e \in Entries(cache') \ Entries(cache) :
                        /\ e.key = RouteKey(hook_ret')
                        /\ e.value = hook_ret'.ret
         /\ hook_ret'.tool \in {"Write", "Edit", "MultiEdit", "TodoWrite"}
               => /\ cache' = cache
                  /\ hits' = hits
                  /\ misses' = misses
                  /\ hook_ret'.requested
      ]_vars

\* C37, amended: route_to_bridge stores a decision under a bridge_route key
\* only when the tool is not a write operation and the bridge has answered
\* this call with status 200, and what it stores is the decision returned;
\* a fallback decision is never stored, but producing it caches the name of
\* the fallback route under the fallback_route key of the tool and the
\* outcome of the routing lookup under its routing key, for write operations
\* too (and these entries can evict stored decisions); a call for a write
\* operation sends a bridge request, stores no decision, and leaves the
\* whole cache and its counters as they were unless it falls back.
C37_OnlyDecisionsOf200Cached ==
    [][RouteStep =>
         LET new == Entries(cache') \ Entries(cache)
             dec == {e \in new : e.key[1] = "bridge_route"}
             write == hook_ret'.tool
                         \in {"Write", "Edit", "MultiEdit", "TodoWrite"}
         IN  /\ dec # {}
                   => /\ ~write
                      /\ hook_ret'.requested
                      /\ hook_ret'.outcome.kind = "response"
                      /\ hook_ret'.outcome.status = 200
                      /\ \A e \in dec :
                            /\ e.key = RouteKey(hook_ret')
                            /\ e.value = hook_ret'.ret
             /\ \A e \in new \ dec :
                   /\ FellBack(hook_ret')
                   /\ hook_ret'.ret.metadata.fallback = TRUE
                   /\ e.key[1] \in {"fallback_route", "routing"}
                   /\ e.key[2] = hook_ret'.tool
                   /\ e.key[1] = "fallback_route"
                         => e.value = hook_ret'.ret.metadata.mcpRoute
             /\ write
                   => /\ hook_ret'.requested
                      /\ ~FellBack(hook_ret') => /\ cache' = cache
                                                 /\ hits' = hits
                                                 /\ misses' = misses
      ]_vars

\* a cacheable call answered with status 200 after a failed one: the cache
\* holds the decision of the second call and the fallback route of the
\* first, and no decision for the first
C37_Witness ==
    /\ hook_ret.op = "route_to_bridge"
    /\ hook_ret.n = 2
    /\ hook_ret.tool = "WebSearch"
    /\ hook_ret.requested
    /\ ~FellBack(hook_ret)
    /\ hook_ret.ret # EmptyDict
    /\ Len(StoredDecisions(cache)) = 1
    /\ StoredDecisions(cache)[1].key = RouteKey(hook_ret)
    /\ StoredDecisions(cache)[1].value = hook_ret.ret
    /\ \E i \in 1..Len(cache) : cache[i].key = <<"fallback_route", "Read">>

(***************************************************************************)
(* The session counters of the interceptor.                                *)
(***************************************************************************)
\* the counters a call can add to besides total_operations
OutcomeCounters ==
    {"morph_operations", "native_operations", "fallback_operations"}

\* C38: after every process_tool_call that has ended, total_operations is
\* the sum of morph_operations, native_operations and fallback_operations,
\* and the call has added 1 to total_operations and 1 to exactly one of the
\* other three counters.
C38_CountersAddUp ==
    icpt_ret.op = "process_tool_call" =>
        /\ session_stats.total_operations =
              session_stats.morph_operations
              + session_stats.native_operations
              + session_stats.fallback_operations
        /\ session_stats.total_operations =
              icpt_ret.before.total_operations + 1
        /\ \E c \in OutcomeCounters :
              /\ session_stats[c] = icpt_ret.before[c] + 1
              /\ \A o \in OutcomeCounters \ {c} :
                    session_stats[o] = icpt_ret.before[o]

(***************************************************************************)
(* A native tool call routed by the interceptor, whose routed call then    *)
(* fails and is handed back to a native tool by the error handler.         *)
(***************************************************************************)
RoundTripInputs ==
    {[k \in {"file_path"} \cup e.keys \cup l.keys |->
         CASE k = "file_path" -> f
           [] k = "edits" -> e.edits
           [] OTHER -> l.limit] :
       f \in {"a.py", "b.py", "c.py"},
       e \in {[keys |-> {}, edits |-> << >>],
              [keys |-> {"edits"}, edits |-> << >>],
              [keys |-> {"edits"}, edits |-> <<"e1">>],
              [keys |-> {"edits"}, edits |-> <<"e1", "e2">>]},
       l \in {[keys |-> {}, limit |-> 0], [keys |-> {"limit"}, limit |-> 10]}}

\* create_morph_tool_call(tool_name, tool_input), then
\* fallback_to_native_tool for the routed call
RouteAndFallBack(tool_name, tool_input) ==
    /\ \E routed \in {create_morph_tool_call(tool_name, tool_input)} :
          icpt_ret' =
              [op |-> "round_trip", tool |-> tool_name, input |-> tool_input,
               routed |-> routed,
               fallback |->
                   fallback_to_native_tool(
                       [tool_name |-> routed.tool,
                        tool_input |-> routed.input,
                        error_message |-> "connection refused"]).response]
    /\ UNCHANGED <<session_stats, environ, argv>>
    /\ UNCHANGED otherThanInterceptor

NextRoundTrip ==
    \E tool_name \in DOMAIN TOOL_MAPPING, tool_input \in RoundTripInputs :
        RouteAndFallBack(tool_name, tool_input)

SpecRoundTrip == InitBridge /\ [][NextRoundTrip]_vars

\* C39: for every native tool T of TOOL_MAPPING the native fallback of the
\* routed tool TOOL_MAPPING[T] is T itself, and for every T other than
\* MultiEdit the routed input is the original input.
C39_RoundTrip ==
    icpt_ret.op = "round_trip" =>
        /\ icpt_ret.routed.tool = TOOL_MAPPING[icpt_ret.tool]
        /\ icpt_ret.fallback.fallback_tool = icpt_ret.tool
        /\ icpt_ret.tool # "MultiEdit" => icpt_ret.routed.input = icpt_ret.input

\* C39 without MultiEdit: the five other tools come back as themselves with
\* the original input, and MultiEdit comes back as Edit with the batch input.
C39_RoundTripButMultiEdit ==
    icpt_ret.op = "round_trip" =>
        /\ icpt_ret.routed.tool = TOOL_MAPPING[icpt_ret.tool]
        /\ icpt_ret.fallback.fallback_tool =
              IF icpt_ret.tool = "MultiEdit" THEN "Edit" ELSE icpt_ret.tool
        /\ icpt_ret.fallback.fallback_input = icpt_ret.routed.input
        /\ icpt_ret.tool # "MultiEdit" => icpt_ret.routed.input = icpt_ret.input

(***************************************************************************)
(* RequestBatcher: two threads calling add_request and the threads of the  *)
(* Timer objects it starts.  threading.Lock is not reentrant: a thread     *)
(* that asks for a lock waits until nobody holds it, itself included.      *)
(***************************************************************************)
\* the threads: a caller, or the thread of Timer object t
BatchThreads ==
    {[caller |-> c] : c \in Callers}
    \cup {[timer |-> t] : t \in 1..Len(timers)}

IsCaller(th) == "caller" \in DOMAIN th

\* where thread th is, and the batch it has taken
ThreadPc(th) ==
    IF IsCaller(th) THEN bpc[th.caller] ELSE timers[th.timer].pc
ThreadBatch(th) ==
    IF IsCaller(th) THEN bloc[th.caller].batch ELSE timers[th.timer].batch

\* where th is once _process_batch has returned: a caller is back in
\* add_request at the end of its with block, a Timer thread ends
AfterProcessBatch(th) == IF IsCaller(th) THEN "unlock" ELSE "finished"

\* thread th moves to pc with batch, the Timer objects being ts
ThreadMoves(th, ts, pc, batch) ==
    IF IsCaller(th)
    THEN /\ bpc' = [bpc EXCEPT ![th.caller] = pc]
         /\ bloc' = [bloc EXCEPT ![th.caller].batch = batch]
         /\ timers' = ts
    ELSE /\ timers' = [ts EXCEPT ![th.timer] = [pc |-> pc, batch |-> batch]]
         /\ UNCHANGED <<bpc, bloc>>

\* Timer.cancel(): stops the Timer if it has not fired yet
Cancelled(ts, t) ==
    IF ts[t].pc = "waiting" THEN [ts EXCEPT ![t].pc = "cancelled"] ELSE ts

\* a thread calls add_request(request, callback), line 125
AddRequestCall(c) ==
    /\ bpc[c] = "idle"
    /\ submitted < MaxRequests
    /\ submitted' = submitted + 1
    /\ callbacks' = Append(callbacks, 0)
    /\ bloc' = [bloc EXCEPT ![c].request = submitted + 1]
    /\ bpc' = [bpc EXCEPT ![c] = "lock"]
    /\ UNCHANGED <<batch_size, pending_requests, timer, batch_lock, timers>>
    /\ UNCHANGED key_ret
    /\ UNCHANGED otherThanUtil

\* lines 127-137: the lock taken, the request appended, and either
\* _process_batch called or the Timer created and started
AddRequestLocked(c) ==
    /\ bpc[c] = "lock"
    /\ batch_lock = None
    /\ batch_lock' = c
    /\ pending_requests' = Append(pending_requests, bloc[c].request)
    /\ IF Len(pending_requests') >= batch_size
       THEN /\ bpc' = [bpc EXCEPT ![c] = "process_batch"]
            /\ UNCHANGED <<timer, timers>>
       ELSE IF timer = << >>
       THEN /\ timers' = Append(timers, [pc |-> "waiting", batch |-> << >>])
            /\ timer' = <<Len(timers) + 1>>
            /\ bpc' = [bpc EXCEPT ![c] = "unlock"]
       ELSE /\ bpc' = [bpc EXCEPT ![c] = "unlock"]
            /\ UNCHANGED <<timer, timers>>
    /\ UNCHANGED <<batch_size, bloc, callbacks, submitted>>
    /\ UNCHANGED key_ret
    /\ UNCHANGED otherThanUtil

\* the end of the with block of add_request: the lock released, the call
\* returns
AddRequestUnlock(c) ==
    /\ bpc[c] = "unlock"
    /\ batch_lock' = None
    /\ bpc' = [bpc EXCEPT ![c] = "idle"]
    /\ UNCHANGED <<batch_size, pending_requests, timer, bloc, timers,
                   callbacks, submitted>>
    /\ UNCHANGED key_ret
    /\ UNCHANGED otherThanUtil

\* the interval of Timer t is over and it has not been cancelled: its thread
\* calls _process_batch
TimerFires(t) ==
    /\ timers[t].pc = "waiting"
    /\ timers' = [timers EXCEPT ![t].pc = "process_batch"]
    /\ UNCHANGED <<batch_size, pending_requests, timer, batch_lock, bpc, bloc,
                   callbacks, submitted>>
    /\ UNCHANGED key_ret
    /\ UNCHANGED otherThanUtil

\* _process_batch, lines 141-150: the with block, entered when nobody holds
\* the lock and left with the lock released
ProcessBatchLocked(th) ==
    /\ ThreadPc(th) = "process_batch"
    /\ batch_lock = None
    /\ timer' = << >>
    /\ \E ts \in {IF timer # << >> THEN Cancelled(timers, timer[1])
                  ELSE timers} :
          IF pending_requests = << >>
          THEN /\ ThreadMoves(th, ts, AfterProcessBatch(th), << >>)
               /\ UNCHANGED pending_requests
          ELSE /\ ThreadMoves(th, ts, "callbacks", pending_requests)
               /\ pending_requests' = << >>
    /\ UNCHANGED <<batch_size, batch_lock, callbacks, submitted>>
    /\ UNCHANGED key_ret
    /\ UNCHANGED otherThanUtil

\* lines 153-154: the callback of the next request of the batch
InvokeCallback(th) ==
    /\ ThreadPc(th) = "callbacks"
    /\ callbacks' = [callbacks EXCEPT ![Head(ThreadBatch(th))] = @ + 1]
    /\ ThreadMoves(th, timers,
                   IF Tail(ThreadBatch(th)) = << >>
                   THEN AfterProcessBatch(th) ELSE "callbacks",
                   Tail(ThreadBatch(th)))
    /\ UNCHANGED <<batch_size, pending_requests, timer, batch_lock,
                   submitted>>
    /\ UNCHANGED key_ret
    /\ UNCHANGED otherThanUtil

InitBatch ==
    /\ now = 0
    /\ CacheNew
    /\ max_size = 1
    /\ ThreadsIdle
    /\ MonitorNew
    /\ ClassifyIdle
    /\ HookNew
    /\ InterceptorNew
    /\ key_ret = [prev |-> NoKey, last |-> NoKey]
    /\ \E size \in (1..MaxBatchSize) \cup {DefaultBatchSize} :
          RequestBatcherInit(size)
    /\ HandlerNew

NextBatch ==
    \/ \E c \in Callers : AddRequestCall(c)
    \/ \E c \in Callers : AddRequestLocked(c)
    \/ \E c \in Callers : AddRequestUnlock(c)
    \/ \E t \in 1..Len(timers) : TimerFires(t)
    \/ \E th \in BatchThreads : ProcessBatchLocked(th)
    \/ \E th \in BatchThreads : InvokeCallback(th)

SpecBatch == InitBatch /\ [][NextBatch]_vars

\* the steps of a calling thread inside add_request, and of a Timer's thread
CallerStep(c) ==
    \/ AddRequestLocked(c)
    \/ AddRequestUnlock(c)
    \/ ProcessBatchLocked([caller |-> c])
    \/ InvokeCallback([caller |-> c])

TimerStep(t) ==
    /\ t \in 1..Len(timers)
    /\ \/ TimerFires(t)
       \/ ProcessBatchLocked([timer |-> t])
       \/ InvokeCallback([timer |-> t])

\* every thread that can take a step is scheduled eventually; nothing
\* obliges a thread to call add_request
SpecBatchFair ==
    /\ SpecBatch
    /\ \A c \in Callers : WF_vars(CallerStep(c))
    /\ \A t \in 1..MaxRequests : WF_vars(TimerStep(t))

\* the callback of request r has been invoked exactly once
Served(r) == r \in 1..Len(callbacks) /\ callbacks[r] = 1

\* all of C40 for one run
AllServed ==
    /\ [](\A r \in 1..Len(callbacks) : callbacks[r] <= 1)
    /\ \A r \in 1..MaxRequests : (submitted >= r) ~> Served(r)
    /\ \A c \in Callers : (bpc[c] # "idle") ~> (bpc[c] = "idle")

\* C40: the callback of every request passed to add_request is eventually
\* invoked, and never more than once, and every add_request call returns,
\* whatever batch_size is and however the callers and the timer thread
\* interleave.
C40_EveryRequestServed == AllServed

\* C40 for a batcher whose batch_size no number of pending requests
\* reaches: every request is served once by a Timer thread and every call
\* returns.
C40_ServedBelowBatchSize == (batch_size > MaxRequests) => AllServed

\* no thread waits for the lock it holds
C40_NoSelfDeadlock ==
    \A c \in Callers : ~(bpc[c] = "process_batch" /\ batch_lock = c)

====
